---- MODULE Spec2Model ----
(***************************************************************************)
(* The persistence and data-consistency layer of the todo bot             *)
(* (src/todo_manager.py): TodoItem, TodoList and TodoManager, with the     *)
(* JSON file and the SQLite database the Manager saves to and loads from.  *)
(*                                                                         *)
(* Python values are modelled as follows.                                  *)
(*   - a dict that the code iterates (self.todo_lists, the parsed JSON     *)
(*     object) is a sequence of [key, val] entries in insertion order;     *)
(*   - a record read with data.get(k, default) is a TLA+ record whose      *)
(*     DOMAIN holds the keys that are present;                             *)
(*   - datetime.now().isoformat() is ToString of the clock `now`;          *)
(*   - uuid.uuid4().hex[:8] is ToString of the counter `uuid`, which never *)
(*     repeats (two draws of uuid4 are taken to differ);                   *)
(*   - None is the string "None"; an Optional[...] result is a sequence of *)
(*     length 0 (None) or 1.                                               *)
(*   - SQLite returns the rows of a table in rowid order, which is the     *)
(*     order of insertion after DELETE FROM has emptied the table.         *)
(***************************************************************************)
EXTENDS Integers, Sequences, FiniteSets, TLC

VARIABLES
    todo_lists,     \* TodoManager.todo_lists: the in-memory index
    last_save,      \* TodoManager._last_save
    USE_DATABASE,   \* the module-level flag selecting the backend
    json_file,      \* the file at self.storage_file (= JSON_FALLBACK)
    json_backup,    \* the file at self.storage_file + ".backup"
    database,       \* the SQLite database at DATABASE_PATH
    now,            \* time.time(), in seconds
    uuid,           \* number of uuid4 values drawn so far
    ret,            \* the last Manager call: its name and what it returned
    host,           \* outside the process: the USE_DATABASE environment
                    \* variable, the storage operations that fail, and the
                    \* time of the last write that succeeded
    threads         \* the threads calling the Manager: where each one is
                    \* in its call and what it holds in its locals

vars == <<todo_lists, last_save, USE_DATABASE, json_file, json_backup,
          database, now, uuid, ret, host, threads>>

store == <<json_file, json_backup, database>>

----------------------------------------------------------------------------
(* Bounds of the model and constants of the program *)

MaxUuid == 3
MaxTime == 10
MaxToggles == 3
save_interval == 5

StartTime == save_interval

Actors == {"alice", "bob"}
Guilds == {"g1", "g2"}
Names == {"Shopping", "Shopping (1)"}
Contents == {"Milk", "Eggs"}

None == "None"

\* the threads that call the Manager at the same time
NThreads == 2

Threads == 1..NThreads

\* a thread that is in no call: its locals are unset and it has been
\* returned no item yet
IdleThread ==
    [pc |-> "idle", list_id |-> None, item_id |-> None, user_id |-> None,
     item |-> <<>>, completed |-> FALSE, returned |-> {},
     name |-> None, guild_id |-> None, todo_list |-> <<>>, seen |-> {}]

NoThreads == [t \in Threads |-> IdleThread]

----------------------------------------------------------------------------
(* Python helpers *)

isoformat(t) == ToString(t)

list_uuid(u) == "list_" \o ToString(u)

item_uuid(u) == "item_" \o ToString(u)

\* data.get(k, default)
Get(data, k, default) == IF k \in DOMAIN data THEN data[k] ELSE default

\* x or y, for a string x (None and "" are falsy)
Or(x, y) == IF x = None \/ x = "" THEN y ELSE x

Range(s) == {s[i] : i \in 1..Len(s)}

\* d[k] = v on an insertion-ordered dict
DictSet(d, k, v) ==
    IF \E i \in 1..Len(d) : d[i].key = k
    THEN [i \in 1..Len(d) |-> IF d[i].key = k THEN [key |-> k, val |-> v] ELSE d[i]]
    ELSE Append(d, [key |-> k, val |-> v])

\* d.clear()
DictDel_all(d, k) == <<>>

\* del d[k]
DictDel(d, k) == SelectSeq(d, LAMBDA e : e.key # k)

\* k in d
DictHas(d, k) == \E i \in 1..Len(d) : d[i].key = k

\* d.values()
Values(d) == [i \in 1..Len(d) |-> d[i].val]

\* the first element of a sequence as an Optional, None when it is empty
First(s) == IF s = <<>> THEN <<>> ELSE <<s[1]>>

----------------------------------------------------------------------------
(* TodoItem and TodoList *)

\* TodoItem.__init__
TodoItem(content, created_by, item_id, t, u) ==
    [content      |-> content,
     created_by   |-> created_by,
     completed    |-> FALSE,
     completed_by |-> None,
     completed_at |-> None,
     created_at   |-> isoformat(t),
     item_id      |-> Or(item_id, item_uuid(u))]

\* TodoList.__init__
TodoList(name, created_by, guild_id, list_id, t, u) ==
    [name       |-> name,
     created_by |-> created_by,
     guild_id   |-> guild_id,
     items      |-> <<>>,
     created_at |-> isoformat(t),
     list_id    |-> Or(list_id, list_uuid(u))]


\* add_item putting the new item first
add_item_front(l, content, created_by, t, u) ==
    [l EXCEPT !.items = <<TodoItem(content, created_by, None, t, u)>> \o @]

\* TodoList.add_item
add_item(l, content, created_by, t, u) ==
    [l EXCEPT !.items = Append(@, TodoItem(content, created_by, None, t, u))]

\* the search that takes the first item whatever its id
FindItem_any(l, item_id) == IF l.items = <<>> THEN 0 ELSE 1

\* the index of the first item of l with this id, 0 when there is none
\* (the loops of remove_item, toggle_item and get_item)
FindItem(l, item_id) ==
    IF \E i \in 1..Len(l.items) : l.items[i].item_id = item_id
    THEN CHOOSE i \in 1..Len(l.items) :
            /\ l.items[i].item_id = item_id
            /\ \A j \in 1..(i - 1) : l.items[j].item_id # item_id
    ELSE 0

\* remove_item filling the place of the removed item with the last item
remove_item_swap(l, item_id) ==
    LET i == FindItem(l, item_id)
        n == Len(l.items)
    IN IF i = 0 THEN l
       ELSE [l EXCEPT !.items = [k \in 1..(n - 1) |-> IF k = i THEN l.items[n] ELSE l.items[k]]]

\* TodoList.remove_item: the list afterwards (the result is FindItem # 0)
remove_item(l, item_id) ==
    LET i == FindItem(l, item_id) IN
    IF i = 0 THEN l
    ELSE [l EXCEPT !.items = SubSeq(@, 1, i - 1) \o SubSeq(@, i + 1, Len(@))]

\* the toggle that leaves actor and time in place when it clears completed
toggle_no_clear(item, user_id, t) ==
    IF ~item.completed
    THEN [item EXCEPT !.completed = TRUE,
                      !.completed_by = user_id,
                      !.completed_at = isoformat(t)]
    ELSE [item EXCEPT !.completed = FALSE]

\* toggle recording the creator of the item as the one who completed it
toggle_by_creator(item, user_id, t) ==
    IF ~item.completed
    THEN [item EXCEPT !.completed = TRUE,
                      !.completed_by = item.created_by,
                      !.completed_at = isoformat(t)]
    ELSE [item EXCEPT !.completed = FALSE,
                      !.completed_by = None,
                      !.completed_at = None]

\* the body of the loop of TodoList.toggle_item, on the item found
toggle(item, user_id, t) ==
    IF ~item.completed
    THEN [item EXCEPT !.completed = TRUE,
                      !.completed_by = user_id,
                      !.completed_at = isoformat(t)]
    ELSE [item EXCEPT !.completed = FALSE,
                      !.completed_by = None,
                      !.completed_at = None]

\* TodoList.toggle_item: the list afterwards (the result is FindItem # 0)
toggle_item(l, item_id, user_id, t) ==
    LET i == FindItem(l, item_id) IN
    IF i = 0 THEN l
    ELSE [l EXCEPT !.items[i] = toggle(@, user_id, t)]

\* TodoList.get_item
get_item(l, item_id) ==
    LET i == FindItem(l, item_id) IN IF i = 0 THEN <<>> ELSE <<l.items[i]>>

----------------------------------------------------------------------------
(* Serialization *)

\* to_dict without the completion fields
item_to_dict_no_completion(item) ==
    [content      |-> item.content,
     created_by   |-> item.created_by,
     created_at   |-> item.created_at,
     item_id      |-> item.item_id]

\* TodoItem.to_dict
item_to_dict(item) ==
    [content      |-> item.content,
     created_by   |-> item.created_by,
     completed    |-> item.completed,
     completed_by |-> item.completed_by,
     completed_at |-> item.completed_at,
     created_at   |-> item.created_at,
     item_id      |-> item.item_id]

\* TodoItem.from_dict with "unknown" for a missing created_by
item_from_dict_unknown(data, t, u) ==
    [TodoItem(Get(data, "content", ""), Get(data, "created_by", "unknown"),
              Get(data, "item_id", None), t, u)
        EXCEPT !.completed    = Get(data, "completed", FALSE),
               !.completed_by = Get(data, "completed_by", None),
               !.completed_at = Get(data, "completed_at", None),
               !.created_at   = Get(data, "created_at", isoformat(t))]

\* TodoItem.from_dict on a dict
item_from_dict(data, t, u) ==
    [TodoItem(Get(data, "content", ""), Get(data, "created_by", ""),
              Get(data, "item_id", None), t, u)
        EXCEPT !.completed    = Get(data, "completed", FALSE),
               !.completed_by = Get(data, "completed_by", None),
               !.completed_at = Get(data, "completed_at", None),
               !.created_at   = Get(data, "created_at", isoformat(t))]

\* whether constructing from this record draws a uuid (its id is falsy)
DrawsUuid(data, k) == Or(Get(data, k, None), "") = ""

\* to_dict leaving the items out
to_dict_no_items(l) ==
    [name       |-> l.name,
     created_by |-> l.created_by,
     guild_id   |-> l.guild_id,
     items      |-> <<>>,
     created_at |-> l.created_at,
     list_id    |-> l.list_id]

\* TodoList.to_dict
to_dict(l) ==
    [name       |-> l.name,
     created_by |-> l.created_by,
     guild_id   |-> l.guild_id,
     items      |-> [i \in 1..Len(l.items) |-> item_to_dict(l.items[i])],
     created_at |-> l.created_at,
     list_id    |-> l.list_id]

\* a JSON value that is not an object (null, a number, a string, an array):
\* data.get raises AttributeError on it, in the try and again in the except
\* clause of from_dict, so from_dict raises
NotADict == [not_a_dict |-> TRUE]

IsDict(data) == "not_a_dict" \notin DOMAIN data

\* the "items" value of the dict can be iterated; a dict whose "items" is
\* null or a number is written with the key items_not_iterable
ItemsIterable(data) == "items_not_iterable" \notin DOMAIN data

\* the item loop of TodoList.from_dict: [items, uuid] after items_data[i..];
\* an item on which TodoItem.from_dict raises is skipped
RECURSIVE LoadItems(_, _, _, _, _)
LoadItems(items_data, i, acc, t, u) ==
    IF i > Len(items_data) THEN [items |-> acc, uuid |-> u]
    ELSE LET d == items_data[i]
             n == IF DrawsUuid(d, "item_id") THEN u + 1 ELSE u
         IN IF IsDict(d)
            THEN LoadItems(items_data, i + 1, Append(acc, item_from_dict(d, t, n)), t, n)
            ELSE LoadItems(items_data, i + 1, acc, t, u)

\* TodoList.from_dict on a dict: [list, uuid]; when the loop over the items
\* raises, the except clause returns a list named "Corrupted List"
from_dict(data, t, u) ==
    LET n  == IF DrawsUuid(data, "list_id") THEN u + 1 ELSE u
        l  == [TodoList(Get(data, "name", "Unknown List"),
                        Get(data, "created_by", "unknown"),
                        Get(data, "guild_id", "unknown"),
                        Get(data, "list_id", None), t, n)
                 EXCEPT !.created_at = Get(data, "created_at", isoformat(t))]
        it == LoadItems(Get(data, "items", <<>>), 1, <<>>, t, n)
        m  == IF DrawsUuid(data, "list_id") THEN n + 1 ELSE n
    IN IF ItemsIterable(data)
       THEN [list |-> [l EXCEPT !.items = it.items], uuid |-> it.uuid]
       ELSE [list |-> TodoList("Corrupted List", "unknown", "unknown",
                               Get(data, "list_id", None), t, m),
             uuid |-> m]

----------------------------------------------------------------------------
(* The two backends *)

NoFile == [exists |-> FALSE, data |-> <<>>]

EmptyDatabase == [todo_lists |-> <<>>, todo_items |-> <<>>]

\* a file whose content breaks off: json.load raises on it
Garbled(file) == [exists |-> TRUE, data |-> file.data, garbled |-> TRUE]

\* json.load parses the file
Parses(file) == "garbled" \notin DOMAIN file

\* the data dict built by _save_to_json and written by json.dump
json_dump(d) ==
    [exists |-> TRUE,
     data   |-> [i \in 1..Len(d) |-> [key |-> d[i].key, val |-> to_dict(d[i].val)]]]

\* the loop of load_lists keeping whatever from_dict makes of each record
RECURSIVE LoadJson_all(_, _, _, _, _)
LoadJson_all(data, i, acc, t, u) ==
    IF i > Len(data) THEN [todo_lists |-> acc, uuid |-> u]
    ELSE LET r == from_dict(data[i].val, t, u)
         IN LoadJson_all(data, i + 1, DictSet(acc, data[i].key, r.list), t, r.uuid)

\* the loop of load_lists over data.items(): [todo_lists, uuid] after data[i..]
RECURSIVE LoadJson(_, _, _, _, _)
LoadJson(data, i, acc, t, u) ==
    IF i > Len(data) THEN [todo_lists |-> acc, uuid |-> u]
    ELSE LET r == from_dict(data[i].val, t, u)
         IN IF IsDict(data[i].val)
            THEN LoadJson(data, i + 1, DictSet(acc, data[i].key, r.list), t, r.uuid)
            ELSE LoadJson(data, i + 1, acc, t, u)

\* load_lists taking whatever the file holds, parsed or not
load_from_json_unparsed(file, d, t, u) ==
    IF ~file.exists THEN [todo_lists |-> d, uuid |-> u]
    ELSE LoadJson(file.data, 1, <<>>, t, u)

\* the JSON branch of load_lists: [todo_lists, uuid]; when json.load raises
\* the except clause clears the index
load_from_json(file, d, t, u) ==
    IF ~file.exists THEN [todo_lists |-> d, uuid |-> u]
    ELSE IF Parses(file) THEN LoadJson(file.data, 1, <<>>, t, u)
    ELSE [todo_lists |-> <<>>, uuid |-> u]

\* the row _save_to_database inserts into todo_lists
list_row(list_id, l) ==
    [list_id    |-> list_id,
     name       |-> l.name,
     created_by |-> l.created_by,
     guild_id   |-> l.guild_id,
     created_at |-> l.created_at]

\* the row _save_to_database inserts into todo_items; a BOOLEAN column holds 0 or 1
item_row(list_id, item) ==
    [item_id      |-> item.item_id,
     list_id      |-> list_id,
     content      |-> item.content,
     created_by   |-> item.created_by,
     completed    |-> IF item.completed THEN 1 ELSE 0,
     completed_by |-> item.completed_by,
     completed_at |-> item.completed_at,
     created_at   |-> item.created_at]

\* the rows of all lists and of all items, in the order of the two loops
RECURSIVE ItemRows(_, _)
ItemRows(d, i) ==
    IF i > Len(d) THEN <<>>
    ELSE [j \in 1..Len(d[i].val.items) |-> item_row(d[i].key, d[i].val.items[j])]
         \o ItemRows(d, i + 1)

\* the PRIMARY KEY of a table admits these rows
PrimaryKeyOk(rows, pk) ==
    \A i, j \in 1..Len(rows) : rows[i][pk] = rows[j][pk] => i = j

\* a save that deletes nothing first: the rows of the tables stay, the rows of
\* the index with new keys are added
save_to_database_merge(db, d) ==
    LET lists == [i \in 1..Len(d) |-> list_row(d[i].key, d[i].val)]
        items == ItemRows(d, 1)
    IN [todo_lists |-> db.todo_lists \o SelectSeq(lists, LAMBDA r :
                           \A i \in 1..Len(db.todo_lists) : db.todo_lists[i].list_id # r.list_id),
        todo_items |-> db.todo_items \o SelectSeq(items, LAMBDA r :
                           \A i \in 1..Len(db.todo_items) : db.todo_items[i].item_id # r.item_id)]

\* _save_to_database: DELETE both tables, INSERT everything, commit; a
\* constraint violation leaves the transaction uncommitted
save_to_database(db, d) ==
    LET new == [todo_lists |-> [i \in 1..Len(d) |-> list_row(d[i].key, d[i].val)],
                todo_items |-> ItemRows(d, 1)]
    IN IF PrimaryKeyOk(new.todo_lists, "list_id") /\ PrimaryKeyOk(new.todo_items, "item_id")
       THEN new ELSE db

\* _save_to_database reaches its except clause: an operation of the database
\* fails, or an INSERT violates a PRIMARY KEY
SaveToDatabaseFails(d) ==
    \/ "db_write" \in host.failing
    \/ ~PrimaryKeyOk([i \in 1..Len(d) |-> list_row(d[i].key, d[i].val)], "list_id")
    \/ ~PrimaryKeyOk(ItemRows(d, 1), "item_id")

\* the item loop of _load_from_database: [items, uuid] after rows[j..]
RECURSIVE LoadItemRows(_, _, _, _, _)
LoadItemRows(rows, j, acc, t, u) ==
    IF j > Len(rows) THEN [items |-> acc, uuid |-> u]
    ELSE LET r    == rows[j]
             n    == IF Or(r.item_id, "") = "" THEN u + 1 ELSE u
             item == [TodoItem(r.content, r.created_by, r.item_id, t, n)
                        EXCEPT !.completed    = (r.completed # 0),
                               !.completed_by = r.completed_by,
                               !.completed_at = r.completed_at,
                               !.created_at   = r.created_at]
         IN LoadItemRows(rows, j + 1, Append(acc, item), t, n)

\* the list loop of _load_from_database: [todo_lists, uuid] after rows[i..]
RECURSIVE LoadListRows(_, _, _, _, _)
LoadListRows(db, i, acc, t, u) ==
    IF i > Len(db.todo_lists) THEN [todo_lists |-> acc, uuid |-> u]
    ELSE LET r  == db.todo_lists[i]
             n  == IF Or(r.list_id, "") = "" THEN u + 1 ELSE u
             l  == [TodoList(r.name, r.created_by, r.guild_id, r.list_id, t, n)
                      EXCEPT !.created_at = r.created_at]
             it == LoadItemRows(SelectSeq(db.todo_items, LAMBDA x : x.list_id = r.list_id),
                                1, <<>>, t, n)
         IN LoadListRows(db, i + 1,
                         DictSet(acc, r.list_id, [l EXCEPT !.items = it.items]),
                         t, it.uuid)

\* the load that reads the lists and none of their items
load_from_database_bare(db, d, t, u) ==
    LoadListRows([db EXCEPT !.todo_items = <<>>], 1, d, t, u)

\* _load_from_database: [todo_lists, uuid]
load_from_database(db, d, t, u) == LoadListRows(db, 1, d, t, u)

----------------------------------------------------------------------------
(* Migration and construction *)

HasKeys(data, keys) == keys \subseteq DOMAIN data

\* no subscript of the migration loop raises KeyError or TypeError
MigrationReads(data) ==
    \A i \in 1..Len(data) :
        /\ HasKeys(data[i].val, {"name", "created_by", "guild_id", "created_at"})
        /\ ItemsIterable(data[i].val)
        /\ \A j \in 1..Len(Get(data[i].val, "items", <<>>)) :
              HasKeys(data[i].val.items[j],
                      {"item_id", "content", "created_by", "completed", "created_at"})

\* a plain INSERT that never fails: the row is added whatever the table holds
InsertAlways(rows, row, pk, notnull) == Append(rows, row)

\* INSERT OR IGNORE: the row is dropped when its key is taken or a NOT NULL column is NULL
InsertOrIgnore(rows, row, pk, notnull) ==
    IF (\E i \in 1..Len(rows) : rows[i][pk] = row[pk]) \/ (\E c \in notnull : row[c] = None)
    THEN rows ELSE Append(rows, row)

RECURSIVE MigrateItems(_, _, _, _)
MigrateItems(rows, list_id, items, j) ==
    IF j > Len(items) THEN rows
    ELSE LET it  == items[j]
             row == [item_id      |-> it.item_id,
                     list_id      |-> list_id,
                     content      |-> it.content,
                     created_by   |-> it.created_by,
                     completed    |-> IF it.completed THEN 1 ELSE 0,
                     completed_by |-> Get(it, "completed_by", None),
                     completed_at |-> Get(it, "completed_at", None),
                     created_at   |-> it.created_at]
         IN MigrateItems(InsertOrIgnore(rows, row, "item_id",
                                        {"list_id", "content", "created_by", "created_at"}),
                         list_id, items, j + 1)

RECURSIVE MigrateLists(_, _, _)
MigrateLists(db, data, i) ==
    IF i > Len(data) THEN db
    ELSE LET ld  == data[i].val
             row == [list_id    |-> data[i].key,
                     name       |-> ld.name,
                     created_by |-> ld.created_by,
                     guild_id   |-> ld.guild_id,
                     created_at |-> ld.created_at]
         IN MigrateLists(
              [todo_lists |-> InsertOrIgnore(db.todo_lists, row, "list_id",
                                  {"name", "created_by", "guild_id", "created_at"}),
               todo_items |-> MigrateItems(db.todo_items, data[i].key,
                                           Get(ld, "items", <<>>), 1)],
              data, i + 1)

\* _migrate_from_json without the rename of the file
migrate_from_json_no_rename(file, backup, db) ==
    IF file.exists /\ Parses(file) /\ MigrationReads(file.data)
    THEN [json_file |-> file, json_backup |-> backup,
          database  |-> MigrateLists(db, file.data, 1)]
    ELSE [json_file |-> file, json_backup |-> backup, database |-> db]

\* _migrate_from_json up to the load: the files and the database afterwards
migrate_from_json(file, backup, db) ==
    IF file.exists /\ Parses(file) /\ MigrationReads(file.data)
    THEN [json_file |-> NoFile, json_backup |-> file,
          database  |-> MigrateLists(db, file.data, 1)]
    ELSE [json_file |-> file, json_backup |-> backup, database |-> db]

\* the operations of the host that may fail: those of _init_database, the
\* SELECTs of _load_from_database, the writes to the database, and the writes
\* to the files, and the copy of the storage file to its .backup sibling alone
FaultKinds == {"db_init", "db_read", "db_write", "disk", "backup"}

\* _migrate_from_json whose steps never fail
migrate_unfailing(failing, file, backup, db) == migrate_from_json(file, backup, db)

\* _migrate_from_json up to the load, when these operations fail: a failed
\* INSERT abandons the migration, a failed rename leaves the files in place
migrate(failing, file, backup, db) ==
    IF "db_write" \in failing
    THEN [json_file |-> file, json_backup |-> backup, database |-> db]
    ELSE IF "disk" \in failing
    THEN [json_file |-> file, json_backup |-> backup,
          database  |-> migrate_from_json(file, backup, db).database]
    ELSE migrate_from_json(file, backup, db)

\* TodoManager.__init__ with USE_DATABASE as the environment sets it and
\* these operations failing: the index, the storage and the flag it leaves,
\* and whether an exception reached the caller.
\*   - _init_database fails: USE_DATABASE becomes False and load_lists reads
\*     the JSON file; _migrate_from_json is still called.
\*   - _load_from_database fails: its except clause calls load_lists, which
\*     reads the JSON file when USE_DATABASE is False, and calls
\*     _load_from_database again when it is True, until RecursionError.
TodoManager_init(use_db, failing, file, backup, db, t, u) ==
    IF ~use_db
    THEN LET l == load_from_json(file, <<>>, t, u)
         IN [todo_lists |-> l.todo_lists, uuid |-> l.uuid, json_file |-> file,
             json_backup |-> backup, database |-> db,
             USE_DATABASE |-> FALSE, raised |-> FALSE]
    ELSE LET use   == "db_init" \notin failing
             first == IF use THEN [todo_lists |-> <<>>, uuid |-> u]
                      ELSE load_from_json(file, <<>>, t, u)
             m     == migrate(failing, file, backup, db)
             l     == IF "db_read" \in failing
                      THEN load_from_json(m.json_file, first.todo_lists, t, first.uuid)
                      ELSE load_from_database(m.database, first.todo_lists, t, first.uuid)
         IN IF "db_read" \in failing /\ use
            THEN [todo_lists |-> <<>>, uuid |-> u, json_file |-> m.json_file,
                  json_backup |-> m.json_backup, database |-> m.database,
                  USE_DATABASE |-> TRUE, raised |-> TRUE]
            ELSE [todo_lists |-> l.todo_lists, uuid |-> l.uuid,
                  json_file |-> m.json_file, json_backup |-> m.json_backup,
                  database |-> m.database, USE_DATABASE |-> use, raised |-> FALSE]

\* TodoManager.__init__ when nothing fails: the index of the new Manager, and
\* the storage it leaves
NewManager(use_db, file, backup, db, t, u) ==
    LET m == TodoManager_init(use_db, {}, file, backup, db, t, u)
    IN [todo_lists |-> m.todo_lists, uuid |-> m.uuid, json_file |-> m.json_file,
        json_backup |-> m.json_backup, database |-> m.database]

----------------------------------------------------------------------------
(* Queries of the Manager, on an index d *)

\* TodoManager.get_list
get_list(d, list_id) ==
    IF DictHas(d, list_id)
    THEN <<d[CHOOSE i \in 1..Len(d) : d[i].key = list_id].val>> ELSE <<>>

\* TodoManager.get_lists_by_name
get_lists_by_name(d, name, guild_id) ==
    SelectSeq(Values(d), LAMBDA l : l.name = name /\ l.guild_id = guild_id)

\* the scan matching on the name alone
get_list_by_name_any_guild(d, name, guild_id) ==
    First(SelectSeq(Values(d), LAMBDA l : l.name = name))

\* the scan that keeps the last match
get_list_by_name_last(d, name, guild_id) ==
    LET s == SelectSeq(Values(d), LAMBDA l : l.name = name /\ l.guild_id = guild_id)
    IN IF s = <<>> THEN <<>> ELSE <<s[Len(s)]>>

\* TodoManager.get_list_by_name: the first match of the scan
get_list_by_name(d, name, guild_id) ==
    First(SelectSeq(Values(d), LAMBDA l : l.name = name /\ l.guild_id = guild_id))

\* TodoManager.list_exists
list_exists(d, name, guild_id) == get_list_by_name(d, name, guild_id) # <<>>

\* get_all_lists returning the lists of the guild last inserted first
get_all_lists_reversed(d, guild_id) ==
    LET s == SelectSeq(Values(d), LAMBDA l : l.guild_id = guild_id)
    IN [i \in 1..Len(s) |-> s[Len(s) + 1 - i]]

\* TodoManager.get_all_lists
get_all_lists(d, guild_id) == SelectSeq(Values(d), LAMBDA l : l.guild_id = guild_id)

----------------------------------------------------------------------------
(* Saving *)

\* the .backup file after a _save_to_json that raised: untouched (the file
\* did not exist or copy2 did not start), a broken-off copy, or the full copy
FailedSaveBackups ==
    IF json_file.exists
    THEN {json_backup, Garbled(json_file), json_file}
    ELSE {json_backup}

\* _save_to_json dumping straight into the storage file
save_to_json_in_place(d) ==
    /\ UNCHANGED database
    /\ json_backup' = IF json_file.exists THEN json_file ELSE json_backup
    /\ IF "disk" \in host.failing
       THEN /\ json_file' \in {json_file, Garbled(json_dump(d))}
            /\ UNCHANGED host
       ELSE /\ json_file' = json_dump(d)
            /\ host' = [host EXCEPT !.mtime = now]

\* _save_to_json: copy the file to .backup, dump to .tmp, replace; an
\* exception at any of these steps is caught and printed by the one except
\* clause at the end, so that a copy that raises ends the save
save_to_json(d) ==
    /\ UNCHANGED database
    /\ IF "disk" \in host.failing
       THEN /\ json_backup' \in FailedSaveBackups
            /\ UNCHANGED <<json_file, host>>
       ELSE IF "backup" \in host.failing /\ json_file.exists
       THEN /\ json_backup' \in {json_backup, Garbled(json_file)}
            /\ UNCHANGED <<json_file, host>>
       ELSE /\ json_backup' = IF json_file.exists THEN json_file ELSE json_backup
            /\ json_file' = json_dump(d)
            /\ host' = [host EXCEPT !.mtime = now]

\* the backend write that writes nothing
write_backend_none(d) == UNCHANGED <<json_file, json_backup, database, host>>

\* the backend write of save_lists and force_save; the except clause of
\* _save_to_database calls save_lists, which writes nothing more
write_backend(d) ==
    IF USE_DATABASE
    THEN /\ database' = IF SaveToDatabaseFails(d) THEN database
                        ELSE save_to_database(database, d)
         /\ host' = IF SaveToDatabaseFails(d) THEN host
                    ELSE [host EXCEPT !.mtime = now]
         /\ UNCHANGED <<json_file, json_backup>>
    ELSE save_to_json(d)

\* the save does not return: _save_to_database fails, its except clause calls
\* save_lists, the limiter lets it through to _save_to_database, which fails
\* again, and so on until the interpreter raises RecursionError
SaveRaises(d) ==
    /\ USE_DATABASE
    /\ SaveToDatabaseFails(d)
    /\ now - last_save >= save_interval

\* save_lists that never writes
save_lists_never(d) ==
    UNCHANGED <<json_file, json_backup, database, last_save, host>>

\* save_lists without the rate limit
save_lists_unlimited(d) ==
    /\ write_backend(d)
    /\ last_save' = now

\* TodoManager.save_lists, with the index d the caller has just built
save_lists(d) ==
    IF now - last_save < save_interval
    THEN UNCHANGED <<json_file, json_backup, database, last_save, host>>
    ELSE /\ write_backend(d)
         /\ last_save' = IF SaveRaises(d) THEN last_save ELSE now

\* the loop left after its first candidate
RenameLoop_once(d, name, guild_id, new_name, i) == new_name

\* the name create_list gives: the while loop over new_name and i
RECURSIVE RenameLoop(_, _, _, _, _)
RenameLoop(d, name, guild_id, new_name, i) ==
    IF list_exists(d, new_name, guild_id)
    THEN RenameLoop(d, name, guild_id, name \o " (" \o ToString(i) \o ")", i + 1)
    ELSE new_name

\* create_list without the existence check
create_name_keep(d, name, guild_id) == name

\* the name under which create_list constructs the list
create_name(d, name, guild_id) ==
    IF list_exists(d, name, guild_id)
    THEN RenameLoop(d, name, guild_id, name \o " (1)", 2)
    ELSE name

----------------------------------------------------------------------------
(* The operations of the Manager *)

Call(op, result) == [op |-> op, result |-> result]

\* the call did not return: this exception reached the caller
Raise(op, exc) == [op |-> op, raised |-> exc]

Raised(r) == "raised" \in DOMAIN r

\* what a call that ends with a save of index d gives its caller
Returns(op, result, d) ==
    IF SaveRaises(d) THEN Raise(op, "RecursionError") ELSE Call(op, result)

\* the ids a caller may pass: those of the index and one that was never issued
ListIds == {todo_lists[i].key : i \in 1..Len(todo_lists)} \cup {"list_0"}

ItemIds ==
    UNION {{todo_lists[i].val.items[j].item_id : j \in 1..Len(todo_lists[i].val.items)}
             : i \in 1..Len(todo_lists)} \cup {"item_0"}

\* TodoManager.create_list
create_list(name, created_by, guild_id) ==
    /\ uuid < MaxUuid
    /\ LET l == TodoList(create_name(todo_lists, name, guild_id), created_by, guild_id,
                         None, now, uuid + 1)
           d == DictSet(todo_lists, l.list_id, l)
       IN /\ todo_lists' = d
          /\ save_lists(d)
          /\ ret' = Returns("create_list", l, d)
    /\ uuid' = uuid + 1
    /\ UNCHANGED <<USE_DATABASE, now, threads>>

\* TodoManager.delete_list
delete_list(list_id) ==
    /\ IF DictHas(todo_lists, list_id)
       THEN LET d == DictDel(todo_lists, list_id)
            IN /\ todo_lists' = d
               /\ save_lists(d)
               /\ ret' = Returns("delete_list", TRUE, d)
       ELSE /\ ret' = Call("delete_list", FALSE)
            /\ UNCHANGED <<todo_lists, json_file, json_backup, database, last_save, host>>
    /\ UNCHANGED <<USE_DATABASE, now, uuid, threads>>

\* TodoManager.add_item_to_list
add_item_to_list(list_id, content, created_by) ==
    /\ IF get_list(todo_lists, list_id) # <<>>
       THEN LET l == add_item(get_list(todo_lists, list_id)[1], content, created_by,
                              now, uuid + 1)
                d == DictSet(todo_lists, list_id, l)
            IN /\ uuid < MaxUuid
               /\ todo_lists' = d
               /\ uuid' = uuid + 1
               /\ save_lists(d)
               /\ ret' = Returns("add_item_to_list", <<l.items[Len(l.items)]>>, d)
       ELSE /\ ret' = Call("add_item_to_list", <<>>)
            /\ UNCHANGED <<todo_lists, uuid, json_file, json_backup, database, last_save, host>>
    /\ UNCHANGED <<USE_DATABASE, now, threads>>

\* TodoManager.remove_item_from_list
remove_item_from_list(list_id, item_id) ==
    /\ LET found == /\ get_list(todo_lists, list_id) # <<>>
                    /\ FindItem(get_list(todo_lists, list_id)[1], item_id) # 0
       IN IF found
          THEN LET d == DictSet(todo_lists, list_id,
                                remove_item(get_list(todo_lists, list_id)[1], item_id))
               IN /\ todo_lists' = d
                  /\ save_lists(d)
                  /\ ret' = Returns("remove_item_from_list", TRUE, d)
          ELSE /\ ret' = Call("remove_item_from_list", FALSE)
               /\ UNCHANGED <<todo_lists, json_file, json_backup, database, last_save, host>>
    /\ UNCHANGED <<USE_DATABASE, now, uuid, threads>>

\* TodoManager.toggle_item_in_list
toggle_item_in_list(list_id, item_id, user_id) ==
    /\ LET found == /\ get_list(todo_lists, list_id) # <<>>
                    /\ FindItem(get_list(todo_lists, list_id)[1], item_id) # 0
       IN IF found
          THEN LET d == DictSet(todo_lists, list_id,
                                toggle_item(get_list(todo_lists, list_id)[1], item_id,
                                            user_id, now))
               IN /\ todo_lists' = d
                  /\ save_lists(d)
                  /\ ret' = Returns("toggle_item_in_list", TRUE, d)
          ELSE /\ ret' = Call("toggle_item_in_list", FALSE)
               /\ UNCHANGED <<todo_lists, json_file, json_backup, database, last_save, host>>
    /\ UNCHANGED <<USE_DATABASE, now, uuid, threads>>

\* TodoManager.force_save
force_save ==
    /\ write_backend(todo_lists)
    /\ ret' = Returns("force_save", <<>>, todo_lists)
    /\ UNCHANGED <<todo_lists, last_save, USE_DATABASE, now, uuid, threads>>

\* a query that first loads the index again from the backend
Query_reloading(op, args, result) ==
    /\ ret' = [op |-> op, args |-> args, result |-> result]
    /\ todo_lists' = NewManager(USE_DATABASE, json_file, json_backup, database,
                                now, uuid).todo_lists
    /\ UNCHANGED <<last_save, USE_DATABASE, json_file, json_backup,
                   database, now, uuid, host, threads>>

\* a query of the Manager: it returns its result and assigns nothing
Query(op, args, result) ==
    /\ ret' = [op |-> op, args |-> args, result |-> result]
    /\ UNCHANGED <<todo_lists, last_save, USE_DATABASE, json_file, json_backup,
                   database, now, uuid, host, threads>>

\* the five queries, each on the index alone
ask_get_list(list_id) ==
    Query("get_list", <<list_id>>, get_list(todo_lists, list_id))

ask_get_list_by_name(name, guild_id) ==
    Query("get_list_by_name", <<name, guild_id>>, get_list_by_name(todo_lists, name, guild_id))

ask_get_lists_by_name(name, guild_id) ==
    Query("get_lists_by_name", <<name, guild_id>>, get_lists_by_name(todo_lists, name, guild_id))

ask_list_exists(name, guild_id) ==
    Query("list_exists", <<name, guild_id>>, list_exists(todo_lists, name, guild_id))

ask_get_all_lists(guild_id) ==
    Query("get_all_lists", <<guild_id>>, get_all_lists(todo_lists, guild_id))

\* the process ends and a new one constructs TodoManager on the same storage
Restart ==
    /\ \E m \in { TodoManager_init(host.USE_DATABASE, host.failing, json_file,
                                    json_backup, database, now, uuid) } :
          /\ m.uuid <= MaxUuid
          /\ todo_lists' = m.todo_lists
          /\ uuid' = m.uuid
          /\ json_file' = m.json_file
          /\ json_backup' = m.json_backup
          /\ database' = m.database
          /\ USE_DATABASE' = m.USE_DATABASE
          /\ ret' = IF m.raised THEN Raise("__init__", "RecursionError")
                    ELSE Call("__init__", <<>>)
    /\ last_save' = 0
    /\ threads' = NoThreads
    /\ UNCHANGED <<now, host>>

\* the process holds a Manager: its construction returned
Constructed == ~(ret.op = "__init__" /\ Raised(ret))

\* the host sets the USE_DATABASE variable of the environment for the
\* processes it starts from now on
Configure(use_db) ==
    /\ host.USE_DATABASE # use_db
    /\ host' = [host EXCEPT !.USE_DATABASE = use_db]
    /\ UNCHANGED <<todo_lists, last_save, USE_DATABASE, json_file, json_backup,
                   database, now, uuid, ret, threads>>

\* the operations of the host that fail from now on
Fault(failing) ==
    /\ host.failing # failing
    /\ host' = [host EXCEPT !.failing = failing]
    /\ UNCHANGED <<todo_lists, last_save, USE_DATABASE, json_file, json_backup,
                   database, now, uuid, ret, threads>>

\* dt seconds pass
Tick(dt) ==
    /\ now + dt <= MaxTime
    /\ now' = now + dt
    /\ UNCHANGED <<todo_lists, last_save, USE_DATABASE, json_file, json_backup,
                   database, uuid, ret, host, threads>>

\* The calls of threads. A thread switch can come between any two bytecodes,
\* so a call is a sequence of steps, each one a read or a write of the
\* objects the threads share; list.append is one step.

\* the list a thread got from get_list, as the object is now
ListOf(t) == get_list(todo_lists, threads[t].list_id)[1]

\* the step of thread t: its locals change, the other threads stay
Step(t, locals) == threads' = [threads EXCEPT ![t] = locals]

\* an append that stores the item over the last one of the list
append_over(items, item) ==
    IF items = <<>> THEN <<item>> ELSE [items EXCEPT ![Len(items)] = item]

\* self.items.append(item): on the items of the list as they are now
append(items, item) == Append(items, item)

\* add_item_to_list, todo_list = self.get_list(list_id): the list is found
add_get(t, list_id) ==
    /\ threads[t].pc = "idle"
    /\ get_list(todo_lists, list_id) # <<>>
    /\ Step(t, [threads[t] EXCEPT !.pc = "add_new", !.list_id = list_id])
    /\ UNCHANGED <<todo_lists, last_save, USE_DATABASE, json_file, json_backup,
                   database, now, uuid, ret, host>>

\* TodoList.add_item, item = TodoItem(content, created_by)
add_new(t, content, created_by) ==
    /\ threads[t].pc = "add_new"
    /\ uuid < MaxUuid
    /\ uuid' = uuid + 1
    /\ Step(t, [threads[t] EXCEPT !.pc = "add_append",
                                  !.item = <<TodoItem(content, created_by, None, now, uuid + 1)>>])
    /\ UNCHANGED <<todo_lists, last_save, USE_DATABASE, json_file, json_backup,
                   database, now, ret, host>>

\* TodoList.add_item, self.items.append(item)
add_append(t) ==
    /\ threads[t].pc = "add_append"
    /\ todo_lists' = DictSet(todo_lists, threads[t].list_id,
                             [ListOf(t) EXCEPT !.items = append(@, threads[t].item[1])])
    /\ Step(t, [threads[t] EXCEPT !.pc = "add_save"])
    /\ UNCHANGED <<last_save, USE_DATABASE, json_file, json_backup,
                   database, now, uuid, ret, host>>

\* add_item_to_list, self.save_lists() and return item
add_save(t) ==
    /\ threads[t].pc = "add_save"
    /\ save_lists(todo_lists)
    /\ ret' = Returns("add_item_to_list", threads[t].item, todo_lists)
    /\ Step(t, [IdleThread EXCEPT !.returned =
                    IF SaveRaises(todo_lists) THEN threads[t].returned
                    ELSE threads[t].returned \cup {threads[t].item[1].item_id}])
    /\ UNCHANGED <<todo_lists, USE_DATABASE, now, uuid>>

\* the item of the list that the loop of toggle_item stops at
ItemOf(t) == FindItem(ListOf(t), threads[t].item_id)

\* the items of the list of thread t with the item it toggles changed to this
WithItem(t, item) ==
    DictSet(todo_lists, threads[t].list_id, [ListOf(t) EXCEPT !.items[ItemOf(t)] = item])

\* toggle_item_in_list, get_list and the loop of toggle_item: the item is found
toggle_get(t, list_id, item_id, user_id) ==
    /\ threads[t].pc = "idle"
    /\ get_list(todo_lists, list_id) # <<>>
    /\ FindItem(get_list(todo_lists, list_id)[1], item_id) # 0
    /\ Step(t, [threads[t] EXCEPT !.pc = "toggle_read", !.list_id = list_id,
                                  !.item_id = item_id, !.user_id = user_id])
    /\ UNCHANGED <<todo_lists, last_save, USE_DATABASE, json_file, json_backup,
                   database, now, uuid, ret, host>>

\* toggle_item, the read of item.completed in "item.completed = not item.completed"
toggle_read(t) ==
    /\ threads[t].pc = "toggle_read"
    /\ Step(t, [threads[t] EXCEPT !.pc = "toggle_write",
                                  !.completed = ListOf(t).items[ItemOf(t)].completed])
    /\ UNCHANGED <<todo_lists, last_save, USE_DATABASE, json_file, json_backup,
                   database, now, uuid, ret, host>>

\* toggle_item, the store of "item.completed = not item.completed"
toggle_write(t) ==
    /\ threads[t].pc = "toggle_write"
    /\ todo_lists' = WithItem(t, [ListOf(t).items[ItemOf(t)]
                                    EXCEPT !.completed = ~threads[t].completed])
    /\ Step(t, [threads[t] EXCEPT !.pc = "toggle_mark"])
    /\ UNCHANGED <<last_save, USE_DATABASE, json_file, json_backup,
                   database, now, uuid, ret, host>>

\* toggle_item, "if item.completed:" and the stores of completed_by and completed_at
toggle_mark(t) ==
    /\ threads[t].pc = "toggle_mark"
    /\ LET item == ListOf(t).items[ItemOf(t)]
       IN todo_lists' = WithItem(t,
             IF item.completed
             THEN [item EXCEPT !.completed_by = threads[t].user_id,
                               !.completed_at = isoformat(now)]
             ELSE [item EXCEPT !.completed_by = None, !.completed_at = None])
    /\ Step(t, [threads[t] EXCEPT !.pc = "toggle_save"])
    /\ UNCHANGED <<last_save, USE_DATABASE, json_file, json_backup,
                   database, now, uuid, ret, host>>

\* toggle_item_in_list, self.save_lists() and return success
toggle_save(t) ==
    /\ threads[t].pc = "toggle_save"
    /\ save_lists(todo_lists)
    /\ ret' = Returns("toggle_item_in_list", TRUE, todo_lists)
    /\ Step(t, [IdleThread EXCEPT !.returned = threads[t].returned])
    /\ UNCHANGED <<todo_lists, USE_DATABASE, now, uuid>>

\* an insertion that stores the list in the place of the last one of the index
insert_over(d, k, v) ==
    IF d = <<>> THEN <<[key |-> k, val |-> v]>>
    ELSE [d EXCEPT ![Len(d)] = [key |-> k, val |-> v]]

\* self.todo_lists[todo_list.list_id] = todo_list: on the index as it is now
insert(d, k, v) == DictSet(d, k, v)

\* create_list, the existence check and the loop that picks the name, on the
\* index as it is now; seen are the keys of the lists it looked at
create_check(t, name, created_by, guild_id) ==
    /\ threads[t].pc = "idle"
    /\ Step(t, [threads[t] EXCEPT !.pc = "create_new",
                                  !.name = create_name(todo_lists, name, guild_id),
                                  !.user_id = created_by,
                                  !.guild_id = guild_id,
                                  !.seen = {todo_lists[i].key : i \in 1..Len(todo_lists)}])
    /\ UNCHANGED <<todo_lists, last_save, USE_DATABASE, json_file, json_backup,
                   database, now, uuid, ret, host>>

\* create_list, todo_list = TodoList(name, created_by, guild_id)
create_new(t) ==
    /\ threads[t].pc = "create_new"
    /\ uuid < MaxUuid
    /\ uuid' = uuid + 1
    /\ Step(t, [threads[t] EXCEPT !.pc = "create_insert",
                                  !.todo_list = <<TodoList(threads[t].name, threads[t].user_id,
                                                           threads[t].guild_id, None, now,
                                                           uuid + 1)>>])
    /\ UNCHANGED <<todo_lists, last_save, USE_DATABASE, json_file, json_backup,
                   database, now, ret, host>>

\* create_list, self.todo_lists[todo_list.list_id] = todo_list
create_insert(t) ==
    /\ threads[t].pc = "create_insert"
    /\ todo_lists' = insert(todo_lists, threads[t].todo_list[1].list_id, threads[t].todo_list[1])
    /\ Step(t, [threads[t] EXCEPT !.pc = "create_save"])
    /\ UNCHANGED <<last_save, USE_DATABASE, json_file, json_backup,
                   database, now, uuid, ret, host>>

\* create_list, self.save_lists() and return todo_list
create_save(t) ==
    /\ threads[t].pc = "create_save"
    /\ save_lists(todo_lists)
    /\ ret' = Returns("create_list", threads[t].todo_list[1], todo_lists)
    /\ Step(t, [IdleThread EXCEPT !.returned =
                    IF SaveRaises(todo_lists) THEN threads[t].returned
                    ELSE threads[t].returned \cup {threads[t].todo_list[1].list_id}])
    /\ UNCHANGED <<todo_lists, USE_DATABASE, now, uuid>>

\* a fresh deployment (no file, empty tables) configured with one of these backends
InitOn(backends) ==
    /\ todo_lists = <<>>
    /\ last_save = 0
    /\ USE_DATABASE \in backends
    /\ json_file = NoFile
    /\ json_backup = NoFile
    /\ database = EmptyDatabase
    /\ now = StartTime
    /\ uuid = 0
    /\ ret = Call("__init__", <<>>)
    /\ host = [USE_DATABASE |-> USE_DATABASE, failing |-> {}, mtime |-> 0]
    /\ threads = NoThreads

Init == InitOn(BOOLEAN)

\* the calls that create and delete lists
ListOps(names, creators, guilds) ==
    \/ \E name \in names, a \in creators, g \in guilds : create_list(name, a, g)
    \/ \E id \in ListIds : delete_list(id)

\* the calls that add, remove and toggle items
ItemOps(contents, creators, users) ==
    \/ \E id \in ListIds, c \in contents, a \in creators : add_item_to_list(id, c, a)
    \/ \E id \in ListIds, it \in ItemIds : remove_item_from_list(id, it)
    \/ \E id \in ListIds, it \in ItemIds, a \in users : toggle_item_in_list(id, it, a)

\* saving on demand and restarting
Env ==
    \/ force_save
    \/ Restart

\* every operation, on lists of one name, while the clock stands still
Next ==
    \/ ListOps({"Shopping"}, {"alice"}, Guilds)
    \/ ItemOps({"Milk"}, {"alice"}, Actors)
    \/ Env

Spec == Init /\ [][Next]_vars

\* every operation in one guild, and the passage of time
NextClock ==
    \/ ListOps({"Shopping"}, {"alice"}, {"g1"})
    \/ ItemOps({"Milk"}, {"alice"}, {"bob"})
    \/ Env
    \/ Tick(save_interval)

SpecClock == Init /\ [][NextClock]_vars

\* the list operations alone, over every name and guild
NextLists ==
    \/ ListOps(Names, {"alice"}, Guilds)
    \/ Env

SpecLists == Init /\ [][NextLists]_vars

\* one list, the item operations by every actor, and the passage of time
NextItems ==
    \/ (uuid = 0 /\ create_list("Shopping", "alice", "g1"))
    \/ \E id \in ListIds : delete_list(id)
    \/ ItemOps({"Milk"}, Actors, Actors)
    \/ Env
    \/ Tick(save_interval)

SpecItems == InitOn({TRUE}) /\ [][NextItems]_vars

\* item records a todo_lists.json may hold: one as to_dict writes it, and one
\* of the schema that has completed but neither completed_by nor completed_at
\* (the keys _migrate_from_json and from_dict read with .get)
StoredItems ==
    { item_to_dict(TodoItem("Milk", "alice", "item_a", 1, 0)),
      [item_id |-> "item_a", content |-> "Milk", created_by |-> "alice",
       completed |-> TRUE, created_at |-> isoformat(1)] }

\* a file of one list of these items, as to_dict writes the list
StoredFile(items) ==
    [exists |-> TRUE,
     data   |-> << [key |-> "list_a",
                    val |-> [to_dict(TodoList("Shopping", "alice", "g1", "list_a", 1, 0))
                               EXCEPT !.items = items]] >>]

\* list records a corrupt file may hold beside the valid ones: a value that
\* is not an object, and an object whose "items" cannot be iterated
CorruptRecords ==
    { NotADict,
      [list_id |-> "list_b", name |-> "Chores", created_by |-> "bob",
       guild_id |-> "g1", created_at |-> isoformat(1), items_not_iterable |-> TRUE] }

\* a file of one valid list, whose second item is not an object, followed by
\* a corrupt list record
CorruptFile(rec) ==
    LET valid == StoredFile(<< item_to_dict(TodoItem("Milk", "alice", "item_a", 1, 0)),
                               NotADict >>)
    IN [valid EXCEPT !.data = Append(@, [key |-> "list_b", val |-> rec])]

\* a file whose list and item records lack every key from_dict reads and
\* hold keys it does not read
SparseFile ==
    [exists |-> TRUE,
     data   |-> << [key |-> "list_a",
                    val |-> [color |-> "red", items |-> << [priority |-> "high"] >>]] >>]

\* the files the Manager may be constructed on: none, one list of one item,
\* a file that does not parse, files with corrupt records, a sparse file
StoredFiles ==
    {NoFile} \cup { StoredFile(<<it>>) : it \in StoredItems }
             \cup { Garbled(StoredFile(<<it>>)) : it \in StoredItems }
             \cup { CorruptFile(rec) : rec \in CorruptRecords }
             \cup { SparseFile }

\* TodoManager constructed on a stored file and an empty database
InitLoad ==
    \E use_db \in BOOLEAN, file \in StoredFiles :
       LET m == NewManager(use_db, file, NoFile, EmptyDatabase, StartTime, 0)
       IN /\ todo_lists = m.todo_lists
          /\ last_save = 0
          /\ USE_DATABASE = use_db
          /\ json_file = m.json_file
          /\ json_backup = m.json_backup
          /\ database = m.database
          /\ now = StartTime
          /\ uuid = m.uuid
          /\ ret = Call("__init__", <<>>)
          /\ host = [USE_DATABASE |-> use_db, failing |-> {}, mtime |-> 0]
          /\ threads = NoThreads

\* the operations on the loaded index, with at most one item added
NextLoad ==
    \/ (uuid = 0 /\ \E id \in ListIds : add_item_to_list(id, "Milk", "alice"))
    \/ \E id \in ListIds, it \in ItemIds : remove_item_from_list(id, it)
    \/ \E id \in ListIds, it \in ItemIds : toggle_item_in_list(id, it, "bob")
    \/ \E id \in ListIds : delete_list(id)
    \/ Env

SpecLoad == InitLoad /\ [][NextLoad]_vars

\* a file of two lists of one name in one guild, as no create_list leaves it
DuplicateFile ==
    [exists |-> TRUE,
     data   |-> << [key |-> "list_a",
                    val |-> to_dict(TodoList("Shopping", "alice", "g1", "list_a", 1, 0))],
                   [key |-> "list_b",
                    val |-> to_dict(TodoList("Shopping", "bob", "g1", "list_b", 2, 0))] >>]

\* the names asked for: those of lists, and one that differs in case only
AskedNames == {"Shopping", "shopping", "Shopping (1)"}

\* TodoManager constructed on no file or on the file of two lists of one name
InitQuery ==
    \E use_db \in BOOLEAN, file \in {NoFile, DuplicateFile} :
       LET m == NewManager(use_db, file, NoFile, EmptyDatabase, StartTime, 0)
       IN /\ todo_lists = m.todo_lists
          /\ last_save = 0
          /\ USE_DATABASE = use_db
          /\ json_file = m.json_file
          /\ json_backup = m.json_backup
          /\ database = m.database
          /\ now = StartTime
          /\ uuid = m.uuid
          /\ ret = Call("__init__", <<>>)
          /\ host = [USE_DATABASE |-> use_db, failing |-> {}, mtime |-> 0]
          /\ threads = NoThreads

\* the queries between a few operations that create and delete lists and add items
NextQuery ==
    \/ (uuid < MaxUuid - 1 /\ \E g \in Guilds : create_list("Shopping", "alice", g))
    \/ \E id \in ListIds : delete_list(id)
    \/ (uuid < MaxUuid - 1 /\ \E id \in ListIds : add_item_to_list(id, "Milk", "alice"))
    \/ force_save
    \/ \E id \in ListIds : ask_get_list(id)
    \/ \E name \in AskedNames, g \in Guilds : ask_get_list_by_name(name, g)
    \/ \E name \in AskedNames, g \in Guilds : ask_get_lists_by_name(name, g)
    \/ \E name \in AskedNames, g \in Guilds : ask_list_exists(name, g)
    \/ \E g \in Guilds : ask_get_all_lists(g)

SpecQuery == InitQuery /\ [][NextQuery]_vars

\* a file of one list of three items: two of one content, two of one id
RepeatingFile ==
    StoredFile(<< item_to_dict(TodoItem("Milk", "alice", "item_a", 1, 0)),
                  item_to_dict(TodoItem("Milk", "alice", "item_b", 1, 0)),
                  item_to_dict(TodoItem("Eggs", "alice", "item_a", 1, 0)) >>)

\* TodoManager constructed on that file
InitOrder ==
    \E use_db \in BOOLEAN :
       LET m == NewManager(use_db, RepeatingFile, NoFile, EmptyDatabase, StartTime, 0)
       IN /\ todo_lists = m.todo_lists
          /\ last_save = 0
          /\ USE_DATABASE = use_db
          /\ json_file = m.json_file
          /\ json_backup = m.json_backup
          /\ database = m.database
          /\ now = StartTime
          /\ uuid = m.uuid
          /\ ret = Call("__init__", <<>>)
          /\ host = [USE_DATABASE |-> use_db, failing |-> {}, mtime |-> 0]
          /\ threads = NoThreads

\* items added to the loaded list and removed from it, by any id
NextOrder ==
    \/ \E id \in ListIds : add_item_to_list(id, "Milk", "alice")
    \/ \E id \in ListIds, it \in ItemIds : remove_item_from_list(id, it)
    \/ force_save

SpecOrder == InitOrder /\ [][NextOrder]_vars

\* one list with its items, saved and reloaded, while _init_database fails
\* (the database is locked when the process starts) or works
NextFallback ==
    \/ (uuid = 0 /\ create_list("Shopping", "alice", "g1"))
    \/ \E id \in ListIds : add_item_to_list(id, "Milk", "alice")
    \/ \E id \in ListIds : delete_list(id)
    \/ force_save
    \/ Restart
    \/ Tick(save_interval)
    \/ \E f \in { {}, {"db_init"} } : Fault(f)

SpecFallback == Init /\ [][NextFallback]_vars

\* a deployment on the JSON backend that is moved to the database: lists and
\* items are written to the file, then the host sets USE_DATABASE and restarts
NextMigrate ==
    \/ \E g \in Guilds : create_list("Shopping", "alice", g)
    \/ \E id \in ListIds, c \in Contents : add_item_to_list(id, c, "alice")
    \/ \E id \in ListIds, it \in ItemIds : toggle_item_in_list(id, it, "bob")
    \/ force_save
    \/ Restart
    \/ Configure(TRUE)

SpecMigrate == InitOn({FALSE}) /\ [][NextMigrate]_vars

\* the failures the host goes through: none, the writes to the database, its
\* reads, the whole database, the writes to the files
FaultSets ==
    { {}, {"db_write"}, {"db_read"}, {"db_init", "db_read", "db_write"}, {"disk"} }

\* one list with its items, saved and reloaded while operations of the host fail
NextFault ==
    \/ (Constructed /\ uuid = 0 /\ create_list("Shopping", "alice", "g1"))
    \/ (Constructed /\ \E id \in ListIds : add_item_to_list(id, "Milk", "alice"))
    \/ (Constructed /\ \E id \in ListIds : delete_list(id))
    \/ (Constructed /\ force_save)
    \/ Restart
    \/ Tick(save_interval)
    \/ \E f \in FaultSets : Fault(f)

SpecFault == Init /\ [][NextFault]_vars

\* the JSON backend while the copy to .backup fails or works
NextBackup ==
    \/ (uuid = 0 /\ create_list("Shopping", "alice", "g1"))
    \/ \E id \in ListIds : add_item_to_list(id, "Milk", "alice")
    \/ \E id \in ListIds : delete_list(id)
    \/ force_save
    \/ Tick(save_interval)
    \/ \E f \in { {}, {"backup"} } : Fault(f)

SpecBackup == InitOn({FALSE}) /\ [][NextBackup]_vars

\* a Manager constructed on a file of one list of one item, no thread in a call
InitThreads ==
    /\ InitLoad
    /\ Len(todo_lists) = 1
    /\ todo_lists[1].val.name = "Shopping"
    /\ todo_lists[1].val.guild_id = "g1"
    /\ Len(todo_lists[1].val.items) = 1
    /\ todo_lists[1].val.items[1].item_id = "item_a"
    /\ ~todo_lists[1].val.items[1].completed

\* threads adding items to the list and toggling its first item, all within
\* one second
NextThreads ==
    \/ \E t \in Threads, id \in ListIds : add_get(t, id)
    \/ \E t \in Threads : add_new(t, "Eggs", "alice")
    \/ \E t \in Threads : add_append(t)
    \/ \E t \in Threads : add_save(t)
    \/ \E t \in Threads, id \in ListIds : toggle_get(t, id, "item_a", "bob")
    \/ \E t \in Threads : toggle_read(t)
    \/ \E t \in Threads : toggle_write(t)
    \/ \E t \in Threads : toggle_mark(t)
    \/ \E t \in Threads : toggle_save(t)

SpecThreads == InitThreads /\ [][NextThreads]_vars

\* threads creating lists of one name in one guild and in another, all
\* within one second, on a fresh deployment
NextCreate ==
    \/ \E t \in Threads, g \in Guilds : create_check(t, "Shopping", "alice", g)
    \/ \E t \in Threads : create_new(t)
    \/ \E t \in Threads : create_insert(t)
    \/ \E t \in Threads : create_save(t)

SpecCreate == Init /\ [][NextCreate]_vars

----------------------------------------------------------------------------
(* Properties *)

\* the Manager a new process would construct on the storage as it is now
FreshManager == NewManager(USE_DATABASE, json_file, json_backup, database, now, uuid)

AllLists == Values(todo_lists)

AllItems == UNION {Range(AllLists[i].items) : i \in 1..Len(AllLists)}

\* C1: after force_save, a Manager constructed on the same storage holds the
\* same index: the same keys in the same order, each list with the same
\* fields and the same items, field by field, in the same order.
C1_ForceSaveThenReload ==
    ret.op = "force_save" => FreshManager.todo_lists = todo_lists

\* C1 witness: force_save has run on a list of two items, one of them
\* completed, and the new Manager holds them
C1_Witness ==
    /\ ret.op = "force_save"
    /\ \E i \in 1..Len(todo_lists) :
          /\ Len(todo_lists[i].val.items) = 2
          /\ todo_lists[i].val.items[1].completed
          /\ ~todo_lists[i].val.items[2].completed
    /\ FreshManager.todo_lists = todo_lists


\* some list of the index has this name in this guild
NameUsed(d, name, guild_id) ==
    \E i \in 1..Len(d) : d[i].val.name = name /\ d[i].val.guild_id = guild_id

Suffixed(name, n) == name \o " (" \o ToString(n) \o ")"

\* C2: create_list(name, actor, guild) returns a list whose id no list of the
\* index had, stores it under that id, and names it name when the guild has no
\* list of that name, and otherwise name + " (N)" for the least N >= 1 whose
\* suffixed name the guild does not use.
C2_CreateListNaming ==
    [][\A name \in Names, a \in Actors, g \in Guilds :
         create_list(name, a, g) =>
            LET l == ret'.result IN
            /\ ~DictHas(todo_lists, l.list_id)
            /\ get_list(todo_lists', l.list_id) = <<l>>
            /\ l.guild_id = g
            /\ IF ~NameUsed(todo_lists, name, g)
               THEN l.name = name
               ELSE \E n \in 1..(Len(todo_lists) + 1) :
                       /\ l.name = Suffixed(name, n)
                       /\ ~NameUsed(todo_lists, Suffixed(name, n), g)
                       /\ \A m \in 1..(n - 1) : NameUsed(todo_lists, Suffixed(name, m), g)
      ]_vars

\* C2 witness: the third "Shopping" of a guild has been created as "Shopping (2)"
C2_Witness ==
    /\ ret.op = "create_list"
    /\ ret.result.name = "Shopping (2)"
    /\ NameUsed(todo_lists, "Shopping", ret.result.guild_id)
    /\ NameUsed(todo_lists, "Shopping (1)", ret.result.guild_id)
    /\ Len(get_all_lists(todo_lists, ret.result.guild_id)) = 3

\* C3: no two lists of the index have the same name in the same guild
C3_UniqueNamePerGuild ==
    \A i, j \in 1..Len(todo_lists) :
        (/\ todo_lists[i].val.name = todo_lists[j].val.name
         /\ todo_lists[i].val.guild_id = todo_lists[j].val.guild_id) => i = j

\* C3 witness: a guild holds two lists, the second created under the name of
\* the first, which holds an item
C3_Witness ==
    /\ ret.op = "create_list"
    /\ ret.result.name = "Shopping (1)"
    /\ \E i, j \in 1..Len(todo_lists) :
          /\ i # j
          /\ todo_lists[i].val.guild_id = todo_lists[j].val.guild_id
          /\ todo_lists[i].val.name = "Shopping"
          /\ todo_lists[i].val.items # <<>>
          /\ todo_lists[j].val = ret.result

\* the names a query may be given: those in use and one that is not
QueryNames == {AllLists[i].name : i \in 1..Len(AllLists)} \cup {"Work"}

\* the three guild-scoped queries return lists of guild g only, on index d
Isolated(d) ==
    \A g \in Guilds, n \in QueryNames :
        /\ \A l \in Range(get_all_lists(d, g)) : l.guild_id = g
        /\ \A l \in Range(get_list_by_name(d, n, g)) : l.guild_id = g
        /\ \A l \in Range(get_lists_by_name(d, n, g)) : l.guild_id = g

\* C4: get_all_lists, get_list_by_name and get_lists_by_name scoped to a guild
\* return lists of that guild only, on the index and on the index a new
\* Manager loads from the storage.
C4_GuildIsolation == Isolated(todo_lists) /\ Isolated(FreshManager.todo_lists)

\* C4 witness: two guilds each hold a list named "Shopping", the storage holds
\* both, and each guild's lookup returns its own
C4_Witness ==
    /\ get_list_by_name(todo_lists, "Shopping", "g1") # <<>>
    /\ get_list_by_name(todo_lists, "Shopping", "g2") # <<>>
    /\ get_list_by_name(todo_lists, "Shopping", "g1")[1].list_id
         # get_list_by_name(todo_lists, "Shopping", "g2")[1].list_id
    /\ FreshManager.todo_lists = todo_lists

\* the completion state of an item
Completion(item) == <<item.completed, item.completed_by, item.completed_at>>

\* the sequences of at most MaxToggles actors
ActorSeqs == UNION {[1..n -> Actors] : n \in 1..MaxToggles}

\* toggle_item called once for each actor of who, the k-th call at time t + k - 1
RECURSIVE ToggleAll(_, _, _, _)
ToggleAll(l, item_id, who, t) ==
    IF who = <<>> THEN l
    ELSE ToggleAll(toggle_item(l, item_id, who[1], t), item_id, Tail(who), t + 1)

\* C5 as stated: an even number of toggles returns every item to its original
\* completion state (completed, completed_by, completed_at).
C5_EvenTogglesRestore ==
    \A i \in 1..Len(AllLists) : \A k \in 1..Len(AllLists[i].items) :
      \A who \in ActorSeqs :
        Len(who) % 2 = 0 =>
          Completion(ToggleAll(AllLists[i], AllLists[i].items[k].item_id, who, now).items[k])
            = Completion(AllLists[i].items[k])

\* C5 as amended: n toggles flip completed exactly when n is odd; a completed
\* result carries the actor and the time of the last toggle, a result that is
\* not completed carries neither; so an even number of toggles restores an item
\* that was not completed, and every other item of the list is left alone.
C5_ToggleParity ==
    \A i \in 1..Len(AllLists) : \A k \in 1..Len(AllLists[i].items) :
      \A who \in ActorSeqs :
        LET n      == Len(who)
            before == AllLists[i].items[k]
            l      == ToggleAll(AllLists[i], before.item_id, who, now)
            after  == l.items[k]
        IN /\ after.completed = (before.completed # (n % 2 = 1))
           /\ after.completed =>
                 /\ after.completed_by = who[n]
                 /\ after.completed_at = isoformat(now + n - 1)
           /\ ~after.completed =>
                 /\ after.completed_by = None
                 /\ after.completed_at = None
           /\ (n % 2 = 0 /\ ~before.completed) => Completion(after) = Completion(before)
           /\ \A j \in 1..Len(l.items) : j # k => l.items[j] = AllLists[i].items[j]

\* C5 witness: the Manager has toggled an item that alice had completed twice
\* more: the item is completed by bob at time 10 while the database still
\* holds it as completed by alice
C5_Witness ==
    /\ ret.op = "toggle_item_in_list"
    /\ ret.result
    /\ \E it \in AllItems :
          /\ it.completed
          /\ it.completed_by = "bob"
          /\ it.completed_at = isoformat(StartTime + save_interval)
    /\ \E r \in Range(database.todo_items) : r.completed = 1 /\ r.completed_by = "alice"

\* C6: every item of the index, also of an index loaded from stored records,
\* has neither completed_by nor completed_at when it is not completed, and has
\* both when it is completed.
C6_CompletionInvariant ==
    \A it \in AllItems :
        /\ ~it.completed => (it.completed_by = None /\ it.completed_at = None)
        /\ it.completed => (it.completed_by # None /\ it.completed_at # None)

\* the index holds a list of this id that holds an item of this id
Present(list_id, item_id) ==
    \E i \in 1..Len(todo_lists) :
        /\ todo_lists[i].key = list_id
        /\ \E j \in 1..Len(todo_lists[i].val.items) :
              todo_lists[i].val.items[j].item_id = item_id

\* C7: remove_item_from_list and toggle_item_in_list, called with a list_id
\* that is not in the index or an item_id that is not in the list, return
\* False and leave the index, the last-save time and the storage unchanged.
C7_MissingIsNoOp ==
    [][\A id \in ListIds, it \in ItemIds, a \in Actors :
         (/\ ~Present(id, it)
          /\ remove_item_from_list(id, it) \/ toggle_item_in_list(id, it, a))
            => /\ ret'.result = FALSE
               /\ UNCHANGED <<todo_lists, last_save, json_file, json_backup, database>>
      ]_vars

\* C7 witness: a call for an item that is not there has returned False, on an
\* index that holds items and has changes the storage does not have
C7_Witness ==
    /\ ret.op \in {"remove_item_from_list", "toggle_item_in_list"}
    /\ ret.result = FALSE
    /\ AllItems # {}
    /\ FreshManager.todo_lists # todo_lists

\* C8: add_item_to_list on a list_id that is not in the index returns None and
\* changes and writes nothing; on a list of the index it returns the new item,
\* not completed, with the given content and creator, appended to the items
\* of that list.
C8_AddItemToList ==
    [][\A id \in ListIds, c \in Contents, a \in Actors :
         add_item_to_list(id, c, a) =>
            IF ~DictHas(todo_lists, id)
            THEN /\ ret'.result = <<>>
                 /\ UNCHANGED <<todo_lists, last_save, json_file, json_backup, database>>
            ELSE /\ Len(ret'.result) = 1
                 /\ ~ret'.result[1].completed
                 /\ ret'.result[1].content = c
                 /\ ret'.result[1].created_by = a
                 /\ get_list(todo_lists', id)[1].items
                      = Append(get_list(todo_lists, id)[1].items, ret'.result[1])
      ]_vars

\* C8 witness: the item returned is the second of its list, after a completed one
C8_Witness ==
    /\ ret.op = "add_item_to_list"
    /\ ret.result # <<>>
    /\ \E i \in 1..Len(AllLists) :
          /\ Len(AllLists[i].items) = 2
          /\ AllLists[i].items[1].completed
          /\ AllLists[i].items[2] = ret.result[1]

\* the item ids of an index
ItemIdsOf(d) ==
    UNION {{d[i].val.items[j].item_id : j \in 1..Len(d[i].val.items)} : i \in 1..Len(d)}

\* C9: delete_list returns True exactly when the id was in the index; then the
\* list and its items are gone from the index and from get_list,
\* get_list_by_name and get_all_lists, and every other list is as it was, in
\* the same order; for an id that is not in the index nothing changes.
C9_DeleteList ==
    [][\A id \in ListIds :
         delete_list(id) =>
            /\ ret'.result = DictHas(todo_lists, id)
            /\ IF DictHas(todo_lists, id)
               THEN /\ get_list(todo_lists', id) = <<>>
                    /\ \A g \in Guilds, n \in QueryNames :
                          /\ \A l \in Range(get_all_lists(todo_lists', g)) : l.list_id # id
                          /\ \A l \in Range(get_list_by_name(todo_lists', n, g)) :
                                l.list_id # id
                    /\ ItemIdsOf(todo_lists') \cap ItemIdsOf(<<todo_lists[
                          CHOOSE i \in 1..Len(todo_lists) : todo_lists[i].key = id]>>) = {}
                    /\ Len(todo_lists') = Len(todo_lists) - 1
                    /\ \A k \in ListIds \ {id} :
                          get_list(todo_lists', k) = get_list(todo_lists, k)
                    /\ \A g \in Guilds :
                          get_all_lists(todo_lists', g)
                            = SelectSeq(get_all_lists(todo_lists, g),
                                        LAMBDA l : l.list_id # id)
               ELSE UNCHANGED <<todo_lists, last_save, json_file, json_backup, database>>
      ]_vars

\* C9 witness: the last of three ids was issued, a list has been deleted, and
\* one list without items remains
C9_Witness ==
    /\ ret.op = "delete_list"
    /\ ret.result = TRUE
    /\ Len(todo_lists) = 1
    /\ uuid = MaxUuid
    /\ AllItems = {}

\* the storage of the active backend holds a list of this id
InStore(use_db, file, db, list_id) ==
    IF use_db
    THEN \E i \in 1..Len(db.todo_lists) : db.todo_lists[i].list_id = list_id
    ELSE file.exists /\ \E i \in 1..Len(file.data) : file.data[i].key = list_id

\* C10 as stated: when create_list has returned, the storage of the active
\* backend holds the new list, however recent the previous save.
C10_CreatePersistsImmediately ==
    ret.op = "create_list" =>
        InStore(USE_DATABASE, json_file, database, ret.result.list_id)

\* C10 as amended: create_list saves through the rate limiter. When at least
\* save_interval seconds have passed since the last rate-limited write of this
\* Manager (or it has made none), the storage holds the new list on return and
\* the last-save time is the time of the call; otherwise the storage and the
\* last-save time are unchanged and the storage does not hold the new list.
C10_CreatePersistsRateLimited ==
    [][\A name \in Names, a \in Actors, g \in Guilds :
         create_list(name, a, g) =>
            IF now - last_save >= save_interval
            THEN /\ InStore(USE_DATABASE, json_file', database', ret'.result.list_id)
                 /\ last_save' = now
            ELSE /\ UNCHANGED <<last_save, json_file, json_backup, database>>
                 /\ ~InStore(USE_DATABASE, json_file', database', ret'.result.list_id)
      ]_vars

\* C10 witness: a list created at time 10, five seconds after the save of an
\* earlier one, is in the storage, and so is the earlier one
C10_Witness ==
    /\ ret.op = "create_list"
    /\ now = StartTime + save_interval
    /\ last_save = now
    /\ Len(todo_lists) = 2
    /\ \A i \in 1..2 : InStore(USE_DATABASE, json_file, database, todo_lists[i].key)
    /\ todo_lists[1].val.created_at = isoformat(StartTime)


\* the storage of the active backend holds an item of this list
ItemsInStore(use_db, file, db, list_id) ==
    IF use_db
    THEN \E i \in 1..Len(db.todo_items) : db.todo_items[i].list_id = list_id
    ELSE /\ file.exists
         /\ \E i \in 1..Len(file.data) :
               file.data[i].key = list_id /\ file.data[i].val.items # <<>>

\* after this step neither the storage nor a Manager constructed on it holds the list
GoneAfter(list_id) ==
    /\ ~InStore(USE_DATABASE, json_file', database', list_id)
    /\ ~ItemsInStore(USE_DATABASE, json_file', database', list_id)
    /\ ~DictHas(NewManager(USE_DATABASE, json_file', json_backup', database',
                           now, uuid).todo_lists, list_id)

\* C11 as stated: after delete_list has returned True, the storage holds
\* neither the list nor any of its items, and a Manager constructed on the
\* storage does not hold the list.
C11_DeletePersists ==
    [][\A id \in ListIds :
         (DictHas(todo_lists, id) /\ delete_list(id)) => GoneAfter(id)
      ]_vars

\* C11 as amended: delete_list saves through the rate limiter. When at least
\* save_interval seconds have passed since the last rate-limited write, the
\* storage holds neither the list nor its items on return and a Manager
\* constructed on it does not hold the list; otherwise the storage and the
\* last-save time are unchanged, and the storage holds whatever it held.
C11_DeletePersistsRateLimited ==
    [][\A id \in ListIds :
         (DictHas(todo_lists, id) /\ delete_list(id)) =>
            IF now - last_save >= save_interval
            THEN GoneAfter(id) /\ last_save' = now
            ELSE UNCHANGED <<last_save, json_file, json_backup, database>>
      ]_vars

\* C11 witness: a delete_list at time 10 has written the empty index to the
\* JSON file, whose previous content, a list with an item, is the backup
C11_Witness ==
    /\ ret.op = "delete_list"
    /\ ret.result = TRUE
    /\ ~USE_DATABASE
    /\ last_save = now
    /\ todo_lists = <<>>
    /\ json_file.exists /\ json_file.data = <<>>
    /\ json_backup.exists
    /\ \E i \in 1..Len(json_backup.data) : json_backup.data[i].val.items # <<>>


\* the operations that change the index and then call save_lists
MutatingOps ==
    {"create_list", "delete_list", "add_item_to_list", "remove_item_from_list",
     "toggle_item_in_list"}

\* this step is an operation that changed the index and called save_lists
Mutated == ret'.op \in MutatingOps /\ todo_lists' # todo_lists

\* in this step save_lists passed its limiter and went to the backend
SaveWent == last_save' # last_save \/ Raised(ret')

\* C12: the rate-limited save goes to the backend exactly when at least
\* save_interval seconds have passed since the last write that succeeded, by
\* save_lists or by force_save: a write that succeeded less than an interval
\* ago suppresses it, a write that failed does not.
C12_SaveIffIntervalSinceLastWrite ==
    [][Mutated => (SaveWent <=> now - host.mtime >= save_interval)]_vars


\* clean: a Manager constructed on the storage would hold the index as it is
Clean == FreshManager.todo_lists = todo_lists

\* clean after this step
CleanAfter ==
    NewManager(USE_DATABASE, json_file', json_backup', database', now', uuid').todo_lists
        = todo_lists'

\* C13 as stated: with clean meaning that the storage equals the index, an
\* operation that changes the index leaves the state clean exactly when its
\* rate-limited save writes, and otherwise dirty; the state becomes clean
\* only by a save that writes; force_save leaves it clean.
C13_CleanOnlyByWrite ==
    [][/\ Mutated => (CleanAfter <=> SaveWent)
       /\ force_save => CleanAfter
       /\ (~Clean /\ CleanAfter) => (SaveWent \/ force_save \/ Restart)
      ]_vars

\* C13 as amended: an operation that changes the index calls the rate-limited
\* save; when the save writes, the state is clean; when it is skipped, the
\* storage is unchanged, so a clean state becomes dirty, and a dirty state
\* stays dirty unless the operation brought the index back to what the
\* storage holds; the passage of time changes nothing; force_save leaves the
\* state clean.
C13_CleanDirtyMachine ==
    [][/\ (Mutated /\ SaveWent) => CleanAfter
       /\ (Mutated /\ ~SaveWent) =>
              /\ UNCHANGED <<json_file, json_backup, database>>
              /\ Clean => ~CleanAfter
              /\ CleanAfter <=> (todo_lists' = FreshManager.todo_lists)
       /\ Tick(save_interval) => (CleanAfter <=> Clean)
       /\ force_save => CleanAfter
      ]_vars

\* C13 witness: toggle_item_in_list has returned True, its save was skipped,
\* and the storage differs from the index
C13_Witness ==
    /\ ret.op = "toggle_item_in_list"
    /\ ret.result = TRUE
    /\ last_save = now
    /\ ~Clean
    /\ \E it \in AllItems : it.completed


\* in this step _save_to_database was called, by force_save or by a
\* save_lists that passed its limiter, and failed
DatabaseSaveFailed ==
    /\ USE_DATABASE
    /\ SaveToDatabaseFails(todo_lists')
    /\ force_save \/ (Mutated /\ now - last_save >= save_interval)

\* C14: when a save to the database fails, in save_lists or in force_save,
\* the Manager saves to the JSON backend: the JSON file then holds the index.
C14_DatabaseSaveFallsBackToJson ==
    [][DatabaseSaveFailed => json_file' = json_dump(todo_lists')]_vars

\* C15: when _init_database or _load_from_database raises, the construction
\* completes, no exception reaches the caller, and the index is the one
\* loaded from the JSON file.
C15_DatabaseLoadFallsBackToJson ==
    [][(/\ Restart
        /\ host.USE_DATABASE
        /\ host.failing \cap {"db_init", "db_read"} # {})
          => /\ ~Raised(ret')
             /\ todo_lists' = load_from_json(json_file, <<>>, now, uuid).todo_lists
      ]_vars

\* C16: no operation of the Manager lets an exception reach its caller,
\* whichever operations of the file and of the database fail.
C16_NothingRaises == ~Raised(ret)

\* C17: _save_to_json leaves at the storage path either the file that was
\* there or the complete dump of the index, never a file that breaks off;
\* when the write fails, the file that was there stays.
C17_JsonSaveAtomic ==
    [][ret'.op # "__init__" =>
          /\ Parses(json_file')
          /\ json_file' \in {json_file, json_dump(todo_lists')}
          /\ "disk" \in host.failing => json_file' = json_file
      ]_vars

\* C17 witness: a _save_to_json has failed while it copied the file to
\* .backup, and the storage file still holds the complete earlier dump of a list
C17_Witness ==
    /\ ~USE_DATABASE
    /\ "disk" \in host.failing
    /\ json_file.exists
    /\ Parses(json_file)
    /\ json_file.data # <<>>
    /\ json_backup = Garbled(json_file)
    /\ json_file # json_dump(todo_lists)

\* C18: a Manager constructed on a JSON storage file that cannot be parsed
\* has an empty index, and its construction raised nothing
C18_UnparsableFileLoadsEmpty ==
    (ret.op = "__init__" /\ json_file.exists /\ ~Parses(json_file))
       => (todo_lists = <<>> /\ Constructed)

\* the JSON backend constructed on a file that does not parse, whose content
\* would have loaded as one list
C18_Witness ==
    /\ ret.op = "__init__"
    /\ ~USE_DATABASE
    /\ json_file.exists /\ ~Parses(json_file)
    /\ Len(json_file.data) = 1
    /\ todo_lists = <<>>

\* the keys of these records of a file, in file order
KeysOf(recs) == [i \in 1..Len(recs) |-> recs[i].key]

\* the keys of the index, in order
LoadedKeys == [i \in 1..Len(todo_lists) |-> todo_lists[i].key]

\* the record of the file under this key
Record(file, key) ==
    (CHOOSE r \in Range(file.data) : r.key = key).val

\* the item records of a list record that are objects
DictItems(data) == SelectSeq(Get(data, "items", <<>>), IsDict)

\* the list was loaded from this record with every item record that is an object
LoadedWhole(l, data) ==
    /\ l.name = Get(data, "name", "Unknown List")
    /\ Len(l.items) = Len(DictItems(data))
    /\ \A j \in 1..Len(l.items) :
          l.items[j].content = Get(DictItems(data)[j], "content", "")

\* a record that loads as what it holds: an object whose items can be iterated
ValidRecord(data) == IsDict(data) /\ ItemsIterable(data)

\* the JSON backend has just been constructed on a file that parses
LoadedFromJson ==
    /\ ret.op = "__init__"
    /\ ~USE_DATABASE
    /\ json_file.exists
    /\ Parses(json_file)

\* C19 as stated: after loading a file with corrupt list records beside valid
\* ones the index holds exactly the valid records, each with its item
\* records that are not corrupt, and nothing was raised
C19_CorruptRecordsSkipped ==
    LoadedFromJson =>
       /\ Constructed
       /\ LoadedKeys = KeysOf(SelectSeq(json_file.data, LAMBDA r : ValidRecord(r.val)))
       /\ \A i \in 1..Len(todo_lists) :
             LoadedWhole(todo_lists[i].val, Record(json_file, todo_lists[i].key))

\* C19, amended: a list record that is not an object is skipped, and an item
\* record that is not an object is skipped while the other items of its list
\* load; an object whose items cannot be iterated is not skipped: it is
\* loaded as a list named "Corrupted List" of creator and guild "unknown"
\* that keeps the list_id of the record and has no items; nothing is raised
C19_CorruptRecordsSkippedOrReplaced ==
    LoadedFromJson =>
       /\ Constructed
       /\ LoadedKeys = KeysOf(SelectSeq(json_file.data, LAMBDA r : IsDict(r.val)))
       /\ \A i \in 1..Len(todo_lists) :
             LET l    == todo_lists[i].val
                 data == Record(json_file, todo_lists[i].key)
             IN IF ItemsIterable(data)
                THEN LoadedWhole(l, data)
                ELSE /\ l.name = "Corrupted List"
                     /\ l.created_by = "unknown"
                     /\ l.guild_id = "unknown"
                     /\ l.list_id = Get(data, "list_id", None)
                     /\ l.items = <<>>

\* constructed on a file of a valid list with one valid and one corrupt item
\* record, followed by a corrupt list record: the valid list is loaded with
\* its valid item
C19_Witness ==
    /\ LoadedFromJson
    /\ \E r \in Range(json_file.data) : ~ValidRecord(r.val)
    /\ \E r \in Range(json_file.data) :
          /\ ValidRecord(r.val)
          /\ \E j \in 1..Len(r.val.items) : ~IsDict(r.val.items[j])
          /\ DictHas(todo_lists, r.key)
          /\ Len(get_list(todo_lists, r.key)[1].items) = Len(r.val.items) - 1

\* TodoList.from_dict called now on a record
FromRecord(data) == from_dict(data, now, uuid).list

\* the list built from the record has each field the record holds, and
\* these defaults for the fields it lacks: the name, the creator of an item,
\* and for the rest the current time for created_at, "unknown" for the
\* creator and the guild of the list, "" for the content of an item, FALSE
\* for completed
BuiltWithDefaults(data, list_name, item_creator) ==
    LET l  == FromRecord(data)
        ds == DictItems(data)
    IN /\ l.name = Get(data, "name", list_name)
       /\ l.created_by = Get(data, "created_by", "unknown")
       /\ l.guild_id = Get(data, "guild_id", "unknown")
       /\ l.created_at = Get(data, "created_at", isoformat(now))
       /\ Len(l.items) = Len(ds)
       /\ \A j \in 1..Len(ds) :
             /\ l.items[j].content = Get(ds[j], "content", "")
             /\ l.items[j].created_by = Get(ds[j], "created_by", item_creator)
             /\ l.items[j].completed = Get(ds[j], "completed", FALSE)
             /\ l.items[j].created_at = Get(ds[j], "created_at", isoformat(now))

\* C20 as stated: from_dict builds a list and its items from any record of
\* the storage file, whatever keys it lacks or holds besides, and a missing
\* list name is "", a missing creator of an item is "unknown"
C20_DefaultsAsStated ==
    \A r \in Range(json_file.data) :
       ValidRecord(r.val) => BuiltWithDefaults(r.val, "", "unknown")

\* C20, amended: from_dict builds a list and its items from any record of
\* the storage file, whatever keys it lacks or holds besides; a missing list
\* name is "Unknown List" and a missing creator of an item is "", a missing
\* content is "", a missing creator or guild of a list is "unknown", a
\* missing completed is FALSE, a missing completed_by or completed_at is
\* None, a missing created_at is the current time, a missing id is a fresh one
C20_DefaultsOfTheCode ==
    \A r \in Range(json_file.data) :
       ValidRecord(r.val) =>
          /\ BuiltWithDefaults(r.val, "Unknown List", "")
          /\ LET l == FromRecord(r.val)
             IN /\ "list_id" \notin DOMAIN r.val => l.list_id = list_uuid(uuid + 1)
                /\ \A j \in 1..Len(l.items) :
                      LET d == DictItems(r.val)[j]
                      IN /\ l.items[j].completed_by = Get(d, "completed_by", None)
                         /\ l.items[j].completed_at = Get(d, "completed_at", None)
                         /\ "item_id" \notin DOMAIN d =>
                               l.items[j].item_id \notin {None, ""}

\* the JSON backend constructed on a file whose list record and item record
\* hold none of the keys from_dict reads: the index holds the list, named
\* "Unknown List", with its item of empty content
C20_Witness ==
    /\ LoadedFromJson
    /\ \E r \in Range(json_file.data) :
          /\ DOMAIN r.val \cap {"name", "created_by", "guild_id", "created_at", "list_id"} = {}
          /\ DictHas(todo_lists, r.key)
          /\ LET l == get_list(todo_lists, r.key)[1]
             IN /\ l.name = "Unknown List"
                /\ Len(l.items) = 1
                /\ l.items[1].content = ""
                /\ l.items[1].created_by = ""
                /\ ~l.items[1].completed

\* from_dict(to_dict(l)), called now
RoundTrip(l) == from_dict(to_dict(l), now, uuid).list

\* the two lists have the same name, creator, guild and id, and the same
\* items in the same order, item by item the same id, content and completion
SameList(l, k) ==
    /\ k.name = l.name
    /\ k.created_by = l.created_by
    /\ k.guild_id = l.guild_id
    /\ k.list_id = l.list_id
    /\ Len(k.items) = Len(l.items)
    /\ \A j \in 1..Len(l.items) :
          /\ k.items[j].item_id = l.items[j].item_id
          /\ k.items[j].content = l.items[j].content
          /\ Completion(k.items[j]) = Completion(l.items[j])

\* C21: for every list of the index, from_dict(to_dict(L)) has the name,
\* created_by, guild_id and list_id of L and, position by position, items of
\* the same item_id, content, completed, completed_by and completed_at
C21_RoundTrip ==
    \A i \in 1..Len(todo_lists) :
       SameList(todo_lists[i].val, RoundTrip(todo_lists[i].val))

\* a list of two items, the first completed and the second not, that the
\* round trip gives back
C21_Witness ==
    \E i \in 1..Len(todo_lists) :
       LET l == todo_lists[i].val
       IN /\ Len(l.items) = 2
          /\ l.items[1].completed
          /\ l.items[1].completed_by # None
          /\ ~l.items[2].completed
          /\ SameList(l, RoundTrip(l))

\* the condition under which __init__ migrates: the process is configured
\* with the database backend and the JSON file exists
MigrationDue == host.USE_DATABASE /\ json_file.exists

\* the list ids and the item ids of the rows of a database
RowIds(db) ==
    [lists |-> {db.todo_lists[i].list_id : i \in 1..Len(db.todo_lists)},
     items |-> {db.todo_items[i].item_id : i \in 1..Len(db.todo_items)}]

\* the step migrated the JSON file: every list and item of the file has a
\* row, the file is gone from its name and is the .backup file
MigratedStep ==
    /\ \A r \in Range(json_file.data) :
          /\ r.key \in RowIds(database').lists
          /\ \A j \in 1..Len(r.val.items) :
                r.val.items[j].item_id \in RowIds(database').items
    /\ ~json_file'.exists
    /\ json_backup' = json_file

\* C22: a startup migrates exactly when the database backend is configured
\* and the JSON file exists: then, when nothing fails, the content of the
\* file is in the database and the file has been renamed to .backup, so that
\* the next startup finds no file to migrate; otherwise the startup leaves
\* the files and the database as they are
C22_MigrationAtStartup ==
    [][Restart =>
         /\ (MigrationDue /\ host.failing = {}) => (MigratedStep /\ ~MigrationDue')
         /\ ~MigrationDue => UNCHANGED <<json_file, json_backup, database>>]_vars

\* a Manager of the database backend constructed by a startup that migrated
\* a file of one list: the list is in the index, the file is the .backup
C22_Witness ==
    /\ ret.op = "__init__"
    /\ USE_DATABASE
    /\ ~json_file.exists
    /\ json_backup.exists
    /\ Parses(json_backup)
    /\ Len(json_backup.data) = 1
    /\ DictHas(todo_lists, json_backup.data[1].key)
    /\ json_backup.data[1].key \in RowIds(database).lists

\* the index _load_from_database builds from a database
LoadedFrom(db) == load_from_database(db, <<>>, now, uuid).todo_lists

\* a startup whose migration raises before its commit: the file does not
\* parse, a record lacks a key the migration subscripts, or an INSERT fails
RaisesBeforeCommit ==
    /\ MigrationDue
    /\ \/ ~Parses(json_file)
       \/ ~MigrationReads(json_file.data)
       \/ "db_write" \in host.failing

\* a startup whose migration raises at the rename of the file, after its commit
RaisesAtRename ==
    /\ MigrationDue
    /\ ~RaisesBeforeCommit
    /\ "disk" \in host.failing

\* the database can be opened and read, so that the load after the migration works
DatabaseReads == host.failing \cap {"db_init", "db_read"} = {}

\* C23 as stated: when a step of the migration raises, the startup completes,
\* the JSON file is left as it was, and the index is loaded from the state
\* the database had before the startup
C23_FailedMigrationLoadsPriorState ==
    [][(Restart /\ DatabaseReads /\ (RaisesBeforeCommit \/ RaisesAtRename)) =>
          /\ Constructed'
          /\ json_file' = json_file
          /\ database' = database
          /\ todo_lists' = LoadedFrom(database)]_vars

\* C23, amended: when a step of the migration raises, the startup completes
\* and the JSON file is left as it was; when the step is before the commit
\* the database is left as it was and the index is loaded from it; when the
\* step is the rename, the rows of the file are committed already, and the
\* index is loaded from the database with these rows
C23_FailedMigrationKeepsFile ==
    [][(Restart /\ DatabaseReads /\ (RaisesBeforeCommit \/ RaisesAtRename)) =>
          /\ Constructed'
          /\ json_file' = json_file
          /\ json_backup' = json_backup
          /\ todo_lists' = LoadedFrom(database')
          /\ RaisesBeforeCommit => database' = database
          /\ RaisesAtRename =>
                /\ database' = MigrateLists(database, json_file.data, 1)
                /\ \A r \in Range(json_file.data) : DictHas(todo_lists', r.key)]_vars

\* a Manager of the database backend constructed while the rename fails, on
\* a file of a list the database did not hold: the file is in place and the
\* list is in the database and in the index
C23_Witness ==
    /\ ret.op = "__init__"
    /\ USE_DATABASE
    /\ "disk" \in host.failing
    /\ json_file.exists
    /\ json_file.data # <<>>
    /\ \A r \in Range(json_file.data) :
          r.key \in RowIds(database).lists /\ DictHas(todo_lists, r.key)

\* every row of the table before is a row of the table after, at its place
RowsKept(before, after) ==
    /\ Len(before) <= Len(after)
    /\ \A i \in 1..Len(before) : after[i] = before[i]

\* C24: the migration of a startup leaves every list row and every item row
\* the database held as it was (a record of the file whose id has a row is
\* ignored), and when it has committed, migrating the same file again into
\* the database it left changes nothing
C24_MigrationIdempotent ==
    [][(Restart /\ MigrationDue) =>
          /\ RowsKept(database.todo_lists, database'.todo_lists)
          /\ RowsKept(database.todo_items, database'.todo_items)
          /\ ~RaisesBeforeCommit =>
                MigrateLists(database', json_file.data, 1) = database']_vars

\* a startup has migrated a file, still in place, of a list that had its row
\* already, while the database holds an item of that list the file does not
C24_Witness ==
    /\ ret.op = "__init__"
    /\ USE_DATABASE
    /\ host.failing = {"disk"}
    /\ json_file.exists
    /\ \E r \in Range(json_file.data) :
          /\ r.key \in RowIds(database).lists
          /\ \E i \in 1..Len(database.todo_items) :
                /\ database.todo_items[i].list_id = r.key
                /\ \A j \in 1..Len(r.val.items) :
                      r.val.items[j].item_id # database.todo_items[i].item_id

\* the guilds asked for: those of the calls, and the one of the lists that
\* from_dict builds from a corrupt record
AskedGuilds == Guilds \cup {"unknown"}

\* the position of a list in the index (dict order is insertion order)
PositionOf(d, l) == CHOOSE i \in 1..Len(d) : d[i].val = l

\* res holds exactly the lists of d of this guild, each once, in the order
\* of their positions in d
FilteredInOrder(d, guild_id, res) ==
    /\ \A i \in 1..Len(res) : res[i].guild_id = guild_id /\ res[i] \in Range(Values(d))
    /\ \A i \in 1..Len(d) : d[i].val.guild_id = guild_id => d[i].val \in Range(res)
    /\ \A i, j \in 1..Len(res) : i < j => PositionOf(d, res[i]) < PositionOf(d, res[j])

\* the ids of the lists a Manager returns for a guild, in order
IdsOfGuild(d, guild_id) ==
    LET res == get_all_lists(d, guild_id) IN [i \in 1..Len(res) |-> res[i].list_id]

\* C25: get_all_lists(guild) returns exactly the lists of the index of that
\* guild in the order of their insertion, and once force_save has returned
\* a new Manager returns the same lists in the same order
C25_GetAllListsInOrder ==
    /\ \A g \in AskedGuilds : \E res \in {get_all_lists(todo_lists, g)} :
          FilteredInOrder(todo_lists, g, res)
    /\ ret.op = "force_save" =>
          \E fresh \in {FreshManager.todo_lists} :
             \A g \in AskedGuilds : IdsOfGuild(fresh, g) = IdsOfGuild(todo_lists, g)

\* force_save has written an index of two lists of one guild and one of
\* another, and a new Manager has them
C25_Witness ==
    /\ ret.op = "force_save"
    /\ Len(get_all_lists(todo_lists, "g1")) = 2
    /\ Len(get_all_lists(todo_lists, "g2")) = 1
    /\ todo_lists[1].val.guild_id = "g1"
    /\ todo_lists[2].val.guild_id = "g2"
    /\ IdsOfGuild(FreshManager.todo_lists, "g1") = IdsOfGuild(todo_lists, "g1")

\* the step leaves every list but this one as it was, and changes of this
\* list only the item at position i, and of that item only the completion
OnlyCompletionOf(list_id, i) ==
    /\ Len(todo_lists') = Len(todo_lists)
    /\ \A k \in 1..Len(todo_lists) :
          /\ todo_lists'[k].key = todo_lists[k].key
          /\ todo_lists[k].key # list_id => todo_lists'[k].val = todo_lists[k].val
    /\ LET l == get_list(todo_lists, list_id)[1]
           m == get_list(todo_lists', list_id)[1]
       IN /\ [m EXCEPT !.items = l.items] = l
          /\ Len(m.items) = Len(l.items)
          /\ \A j \in 1..Len(l.items) : j # i => m.items[j] = l.items[j]
          /\ [m.items[i] EXCEPT !.completed    = l.items[i].completed,
                                !.completed_by = l.items[i].completed_by,
                                !.completed_at = l.items[i].completed_at] = l.items[i]

\* C26: toggle_item_in_list on an item that exists changes only the
\* completed, completed_by and completed_at of that item: completed is
\* inverted, and when the item becomes completed completed_by is the actor
\* of the call; the other items and the other lists are unchanged
C26_ToggleChangesOnlyTheItem ==
    [][\A id \in ListIds, it \in ItemIds, a \in Actors :
          (Present(id, it) /\ toggle_item_in_list(id, it, a)) =>
             LET l == get_list(todo_lists, id)[1]
                 i == FindItem(l, it)
                 n == get_list(todo_lists', id)[1].items[i]
             IN /\ ret'.result
                /\ OnlyCompletionOf(id, i)
                /\ n.completed = ~l.items[i].completed
                /\ n.completed => n.completed_by = a]_vars

\* a list of two items created by alice, of which bob has just toggled the
\* first: it is completed by bob, the second is not completed
C26_Witness ==
    /\ ret.op = "toggle_item_in_list"
    /\ ret.result
    /\ \E i \in 1..Len(todo_lists) :
          LET l == todo_lists[i].val
          IN /\ Len(l.items) = 2
             /\ l.items[1].created_by = "alice"
             /\ l.items[1].completed
             /\ l.items[1].completed_by = "bob"
             /\ ~l.items[2].completed

\* no thread is in a call
AllReturned == \A t \in Threads : threads[t].pc = "idle"

\* the ids of the items the add calls of the threads have returned
ReturnedItems == UNION {threads[t].returned : t \in Threads}

\* C27: when the threads that add items to a list and toggle its items have
\* all returned, the list is found by its name in its guild and holds the
\* item it had at the start and every item an add call returned
C27_NoAddedItemLost ==
    AllReturned =>
       /\ get_list_by_name(todo_lists, "Shopping", "g1") # <<>>
       /\ LET ids == {it.item_id : it \in Range(get_list_by_name(todo_lists, "Shopping", "g1")[1].items)}
          IN /\ "item_a" \in ids
             /\ ReturnedItems \subseteq ids

\* two threads have each added an item while the other was in its call, and
\* the initial item has been toggled: the list holds the three items
C27_Witness ==
    /\ AllReturned
    /\ \A t \in Threads : threads[t].returned # {}
    /\ Cardinality(ReturnedItems) >= 2
    /\ \E l \in Range(AllLists) :
          /\ Len(l.items) = 3
          /\ l.items[1].completed
          /\ l.items[2].created_at = l.items[3].created_at

\* the periodic task of the bot: it wakes when its period has passed (a period
\* is no shorter than the save interval), notes the time in a field of the
\* bot and calls nothing of the Manager
heartbeat == Tick(save_interval)

\* the calls of the command layer with the periodic task running between them
NextIdle ==
    \/ ListOps({"Shopping"}, {"alice"}, {"g1"})
    \/ ItemOps({"Milk"}, {"alice"}, {"bob"})
    \/ Env
    \/ heartbeat

\* the periodic task is scheduled for ever; no call of the Manager is ever
\* bound to happen
SpecIdle == Init /\ [][NextIdle]_vars /\ WF_vars(heartbeat)

\* C28: whenever the persistent store is behind the index (the save of a
\* mutating operation was skipped), the store eventually holds the index
\* again, whether or not the Manager is called any more
C28_SkippedSaveEventuallyWritten == ~Clean ~> Clean

\* this step is force_save
ForceSaved ==
    /\ ret'.op = "force_save"
    /\ <<todo_lists, now, host.failing>>' = <<todo_lists, now, host.failing>>

\* this step called _save_to_database: force_save, or a mutating operation
\* whose save_lists passed the limiter
DatabaseSaveStep ==
    /\ USE_DATABASE
    /\ \/ ForceSaved
       \/ Mutated /\ now - last_save >= save_interval

\* the list rows are those of the lists of index d, one row for each list
ListRowsAre(db, d) ==
    /\ Len(db.todo_lists) = Len(d)
    /\ Range(db.todo_lists) = {list_row(d[i].key, d[i].val) : i \in 1..Len(d)}

\* the number of items of the lists d[i..]
RECURSIVE CountItems(_, _)
CountItems(d, i) ==
    IF i > Len(d) THEN 0 ELSE Len(d[i].val.items) + CountItems(d, i + 1)

\* the item rows are those of the items of index d, one row for each item
ItemRowsAre(db, d) ==
    /\ Len(db.todo_items) = CountItems(d, 1)
    /\ Range(db.todo_items) =
           UNION { {item_row(d[i].key, d[i].val.items[j]) : j \in 1..Len(d[i].val.items)}
                   : i \in 1..Len(d) }

\* every item row references a list row
NoOrphanRows(db) ==
    \A j \in 1..Len(db.todo_items) :
        \E i \in 1..Len(db.todo_lists) : db.todo_lists[i].list_id = db.todo_items[j].list_id

\* C29: a step that calls _save_to_database leaves in the two tables exactly
\* the rows of the index (one row for each list, one for each item, every item
\* row referencing a list row, no row of a list or item that is gone) when the
\* save succeeds, and leaves the tables as they were when it fails
C29_DatabaseSaveIsFullReplace ==
    [][DatabaseSaveStep =>
          IF SaveToDatabaseFails(todo_lists')
          THEN database' = database
          ELSE /\ ListRowsAre(database', todo_lists')
               /\ ItemRowsAre(database', todo_lists')
               /\ NoOrphanRows(database')]_vars

\* a list with an item was deleted and the save that followed went through:
\* the tables held its rows before and hold none now
C29_Witness ==
    /\ USE_DATABASE
    /\ ret.op = "delete_list"
    /\ ~Raised(ret)
    /\ last_save = now
    /\ todo_lists = <<>>
    /\ database = EmptyDatabase
    /\ uuid >= 2

\* the frames the interpreter allows a chain of calls
RecursionLimit == 6

\* how a call of save_lists in frame n ends: it returns at the limiter, or it
\* calls the backend save, and an exception from that call passes through;
\* _save_to_json catches what it raises. How a call of _save_to_database in
\* frame n ends: when the save fails, its except clause calls save_lists
RECURSIVE call_save_lists(_, _, _, _)
RECURSIVE call_save_to_database(_, _, _, _)
call_save_lists(use_db, fails, elapsed, n) ==
    IF n > RecursionLimit THEN "RecursionError"
    ELSE IF ~elapsed THEN "returned"
    ELSE IF use_db THEN call_save_to_database(use_db, fails, elapsed, n + 1)
    ELSE "returned"

call_save_to_database(use_db, fails, elapsed, n) ==
    IF n > RecursionLimit THEN "RecursionError"
    ELSE IF fails THEN call_save_lists(use_db, fails, elapsed, n + 1)
    ELSE "returned"

\* how a call of force_save ends
call_force_save(use_db, fails, elapsed) ==
    IF use_db THEN call_save_to_database(use_db, fails, elapsed, 2) ELSE "returned"

\* how a call of load_lists in frame n ends: with the database in use (the
\* USE_DATABASE that _init_database left) it calls _load_from_database, whose
\* except clause calls load_lists
RECURSIVE call_load_lists(_, _, _)
RECURSIVE call_load_from_database(_, _, _)
call_load_lists(use_db, fails, n) ==
    IF n > RecursionLimit THEN "RecursionError"
    ELSE IF use_db THEN call_load_from_database(use_db, fails, n + 1)
    ELSE "returned"

call_load_from_database(use_db, fails, n) ==
    IF n > RecursionLimit THEN "RecursionError"
    ELSE IF fails THEN call_load_lists(use_db, fails, n + 1)
    ELSE "returned"

\* this step is the construction of a Manager
Restarted == ret'.op = "__init__" /\ <<now, host>>' = <<now, host>>

\* C30: every save and every load returns, whatever fails: the chain of
\* calls of force_save, of the save_lists of a mutating operation and of the
\* load of a construction ends before the interpreter runs out of frames
C30_SavesAndLoadsReturn ==
    [][/\ ForceSaved =>
              call_force_save(USE_DATABASE, SaveToDatabaseFails(todo_lists),
                              now - last_save >= save_interval) = "returned"
       /\ Mutated =>
              call_save_lists(USE_DATABASE, SaveToDatabaseFails(todo_lists'),
                              now - last_save >= save_interval, 1) = "returned"
       /\ (Restarted /\ host.USE_DATABASE) =>
              call_load_from_database("db_init" \notin host.failing,
                                      "db_read" \in host.failing, 1) = "returned"]_vars

\* this step called _save_to_json: force_save, or a mutating operation whose
\* save_lists passed the limiter
JsonSaveStep ==
    /\ ~USE_DATABASE
    /\ \/ ForceSaved
       \/ Mutated /\ now - last_save >= save_interval

\* C31: a step that calls _save_to_json while the disk takes writes puts the
\* dump of the index at the storage path, whether or not the copy to .backup
\* works, and when the copy works and a file was there, .backup holds the
\* file that was at the storage path before the step
C31_BackupThenWrite ==
    [][(JsonSaveStep /\ "disk" \notin host.failing) =>
          /\ json_file' = json_dump(todo_lists')
          /\ (json_file.exists /\ "backup" \notin host.failing) => json_backup' = json_file
      ]_vars

QueryOps ==
    {"get_list", "get_list_by_name", "get_lists_by_name", "list_exists", "get_all_lists"}

\* what the query of call r finds in index d
QueryResult(d, r) ==
    CASE r.op = "get_list"          -> get_list(d, r.args[1])
      [] r.op = "get_list_by_name"  -> get_list_by_name(d, r.args[1], r.args[2])
      [] r.op = "get_lists_by_name" -> get_lists_by_name(d, r.args[1], r.args[2])
      [] r.op = "list_exists"       -> list_exists(d, r.args[1], r.args[2])
      [] r.op = "get_all_lists"     -> get_all_lists(d, r.args[1])

\* C32: a query leaves the index with every list and item, the time of the
\* last save, the storage file, its backup and the tables as they were, and
\* what it returns is found in the index as it was before the call
C32_QueriesReadOnly ==
    [][ret'.op \in QueryOps =>
          /\ UNCHANGED <<todo_lists, last_save, json_file, json_backup, database>>
          /\ ret'.result = QueryResult(todo_lists, ret')]_vars

\* a query has answered from an index that holds a list the storage lacks
C32_Witness ==
    /\ ret.op = "get_all_lists"
    /\ ret.result # <<>>
    /\ ~Clean

\* sequence s without its k-th element
Without(s, k) == SubSeq(s, 1, k - 1) \o SubSeq(s, k + 1, Len(s))

\* in this step the lists other than the i-th stay as they are, and so do the
\* key, name and owner of the i-th
OnlyItemsOf(i) ==
    /\ Len(todo_lists') = Len(todo_lists)
    /\ \A j \in 1..Len(todo_lists) : j # i => todo_lists'[j] = todo_lists[j]
    /\ todo_lists'[i] = [todo_lists[i] EXCEPT !.val.items = todo_lists'[i].val.items]

\* C33: an add puts one item behind the items of the list, which stay as they
\* were and in their order; a remove takes out one item, the first of its
\* id, and leaves the others in their order. Items of one content stay apart.
C33_ItemsInOrderOfAddition ==
    [][/\ (ret'.op = "add_item_to_list" /\ todo_lists' # todo_lists) =>
              \E i \in 1..Len(todo_lists) :
                 LET old == todo_lists[i].val.items
                     new == todo_lists'[i].val.items
                 IN /\ OnlyItemsOf(i)
                    /\ Len(new) = Len(old) + 1
                    /\ SubSeq(new, 1, Len(old)) = old
                    /\ \A k \in 1..Len(old) : old[k].item_id # new[Len(new)].item_id
       /\ (ret'.op = "remove_item_from_list" /\ todo_lists' # todo_lists) =>
              \E i \in 1..Len(todo_lists) :
                 LET old == todo_lists[i].val.items
                 IN /\ OnlyItemsOf(i)
                    /\ \E k \in 1..Len(old) :
                          /\ todo_lists'[i].val.items = Without(old, k)
                          /\ \A j \in 1..(k - 1) : old[j].item_id # old[k].item_id
      ]_vars

\* the first of the two items of one id was removed and an item of a content
\* the list already holds was added: the list holds the second loaded item,
\* the third, and the added one behind them
C33_Witness ==
    /\ Len(todo_lists) = 1
    /\ Len(todo_lists[1].val.items) = 3
    /\ todo_lists[1].val.items[1].item_id = "item_b"
    /\ todo_lists[1].val.items[1].content = "Milk"
    /\ todo_lists[1].val.items[2].item_id = "item_a"
    /\ todo_lists[1].val.items[2].content = "Eggs"
    /\ todo_lists[1].val.items[3].content = "Milk"
    /\ todo_lists[1].val.items[3].item_id \notin {"item_a", "item_b"}

\* the positions in index d of the lists of this name, letter for letter, in
\* this guild
Matches(d, name, guild_id) ==
    {i \in 1..Len(d) : d[i].val.name = name /\ d[i].val.guild_id = guild_id}

\* the least of a non-empty set of numbers
Least(S) == CHOOSE i \in S : \A j \in S : i <= j

\* C34: get_list_by_name has returned the first list of the index, in the
\* order of insertion, that has the name asked for letter for letter and the
\* guild asked for, or None when there is none; list_exists has returned
\* whether there is one; and for every name and guild list_exists is true
\* exactly when get_list_by_name is not None, exactly when get_lists_by_name
\* is not empty
C34_FirstExactMatch ==
    /\ ret.op = "get_list_by_name" =>
          LET m == Matches(todo_lists, ret.args[1], ret.args[2])
          IN ret.result = IF m = {} THEN <<>> ELSE <<todo_lists[Least(m)].val>>
    /\ ret.op = "list_exists" =>
          (ret.result <=> Matches(todo_lists, ret.args[1], ret.args[2]) # {})
    /\ \A n \in AskedNames, g \in Guilds :
          /\ list_exists(todo_lists, n, g) <=> get_list_by_name(todo_lists, n, g) # <<>>
          /\ list_exists(todo_lists, n, g) <=> get_lists_by_name(todo_lists, n, g) # <<>>

\* two lists of the guild have the name asked for, and get_list_by_name has
\* returned the one inserted first
C34_Witness ==
    /\ ret.op = "get_list_by_name"
    /\ ret.args = <<"Shopping", "g1">>
    /\ Len(get_lists_by_name(todo_lists, "Shopping", "g1")) = 2
    /\ ret.result # <<>>
    /\ ret.result[1].list_id = "list_a"
    /\ list_exists(todo_lists, "Shopping", "g1")
    /\ ~list_exists(todo_lists, "shopping", "g1")

\* list l of the index is record rec of the file: its name, creator, guild
\* and time of creation, and its items one for one in the order of the file,
\* each with its id, content, creator, time of creation and completion
ListIsRecord(l, rec) ==
    /\ l.name = rec.name
    /\ l.created_by = rec.created_by
    /\ l.guild_id = rec.guild_id
    /\ l.created_at = rec.created_at
    /\ Len(l.items) = Len(rec.items)
    /\ \A j \in 1..Len(rec.items) :
          /\ l.items[j].item_id = rec.items[j].item_id
          /\ l.items[j].content = rec.items[j].content
          /\ l.items[j].created_by = rec.items[j].created_by
          /\ l.items[j].created_at = rec.items[j].created_at
          /\ l.items[j].completed = rec.items[j].completed
          /\ l.items[j].completed_by = Get(rec.items[j], "completed_by", None)
          /\ l.items[j].completed_at = Get(rec.items[j], "completed_at", None)

\* the startup of this step migrates into empty tables and nothing stops it
MigratesIntoEmpty ==
    /\ Restart
    /\ MigrationDue
    /\ host.failing = {}
    /\ database = EmptyDatabase
    /\ Parses(json_file)
    /\ MigrationReads(json_file.data)

\* C35: the Manager constructed by a startup that migrated the JSON file
\* into empty tables holds a list for every record of the file and no other,
\* under the key of the record and in the order of the file, each with the
\* name, creator, guild and time of creation of the record and with its items
\* in the order and the completion state of the file
C35_MigrationKeepsEveryList ==
    [][MigratesIntoEmpty =>
          /\ Len(todo_lists') = Len(json_file.data)
          /\ \A i \in 1..Len(json_file.data) :
                /\ todo_lists'[i].key = json_file.data[i].key
                /\ ListIsRecord(todo_lists'[i].val, json_file.data[i].val)]_vars

\* a Manager of the database backend constructed by a startup that migrated
\* a file of one list of two items, the first of them completed: the index
\* holds what the renamed file holds
C35_Witness ==
    /\ ret.op = "__init__"
    /\ USE_DATABASE
    /\ ~json_file.exists
    /\ json_backup.exists
    /\ Len(json_backup.data) = 1
    /\ Len(json_backup.data[1].val.items) = 2
    /\ json_backup.data[1].val.items[1].completed
    /\ ~json_backup.data[1].val.items[2].completed
    /\ Len(todo_lists) = 1
    /\ ListIsRecord(todo_lists[1].val, json_backup.data[1].val)
    /\ Len(database.todo_items) = 2

\* the index load_lists builds from a JSON file
LoadedFromFile(file) == load_from_json(file, <<>>, now, uuid).todo_lists

\* C36: the index of a Manager that has just been constructed is what the
\* backend it saves to holds, and nothing else: the rows of the tables when
\* it saves to the database, the records of the storage file when it saves
\* to the file, also after _init_database failed and set USE_DATABASE False
C36_OneBackend ==
    (ret.op = "__init__" /\ Constructed) =>
        todo_lists = IF USE_DATABASE THEN LoadedFrom(database) ELSE LoadedFromFile(json_file)

\* the places <<i, j>> of the items of index d: item j of list i
ItemPlaces(d) == UNION {{<<i, j>> : j \in 1..Len(d[i].val.items)} : i \in 1..Len(d)}

\* C37: every key of the index is the list_id of the list under it, and no
\* item id is at two places of the index, in one list or in two, in every
\* state, those that follow a load from the file or from the tables included
C37_KeysAndItemIds ==
    /\ \A i \in 1..Len(todo_lists) : todo_lists[i].key = todo_lists[i].val.list_id
    /\ \A p, q \in ItemPlaces(todo_lists) :
          todo_lists[p[1]].val.items[p[2]].item_id = todo_lists[q[1]].val.items[q[2]].item_id
             => p = q

\* the ids of the lists the create calls of the threads have returned
ReturnedLists == UNION {threads[t].returned : t \in Threads}

============================================================================
